---- MODULE Spec2Model ----
(***************************************************************************)
(* ECAL: the event engine as used by addEvent / addEventAndWait            *)
(* (interpreter/func_provider.go) and the thread debugger                  *)
(* (interpreter/debug.go, ecalDebugger).                                   *)
(***************************************************************************)
EXTENDS Naturals, Integers, Sequences, FiniteSets, TLC

(***************************************************************************)
(* Go maps are functions with a varying domain.                            *)
(***************************************************************************)
Put(m, k, v) == [x \in (DOMAIN m) \cup {k} |-> IF x = k THEN v ELSE m[x]]

Del(m, k) == [x \in (DOMAIN m) \ {k} |-> m[x]]

EmptyMap == [x \in {} |-> 0]

(***************************************************************************)
(*                               DEBUGGER                                  *)
(***************************************************************************)

\* Thread ids handed to the debugger hooks.
Threads == {1, 2}

\* Source lines of the nodes a thread visits.
MaxLine == 2

Lines == 1 .. MaxLine

\* A node whose Token is nil (the statements container).
NoToken == 0

Nodes == Lines \cup {NoToken}

\* Deepest call nesting a thread reaches.
MaxDepth == 2

\* Hook calls of the threads and console commands of a run.
MaxSteps == 6

\* interrogationCmd
Stop == "Stop"

StepIn == "StepIn"

StepOut == "StepOut"

StepOver == "StepOver"

Resume == "Resume"

\* util.ContType
ContTypes == {Resume, StepIn, StepOver, StepOut}

\* The one source file of the model; break points are keyed "source:line".
TheSource == "main"

VARIABLES
    breakPoints,          \* ecalDebugger.breakPoints: line -> active
    interrogationStates,  \* ecalDebugger.interrogationStates: tid -> state
    callStacks,           \* ecalDebugger.callStacks: tid -> call nodes
    sources,              \* ecalDebugger.sources
    breakOnStart,         \* ecalDebugger.breakOnStart
    thr,                  \* position of every thread inside the hooks
    step,                 \* the last Continue that resumed each thread
    steps,                \* hook calls and console commands so far
    panicked              \* a Go runtime panic has ended the process

dbgVars == <<breakPoints, interrogationStates, callStacks, sources,
             breakOnStart, thr, step, steps, panicked>>

VARIABLES
    rulePrio,    \* priority of every rule of the processor's rule table
    procStopped, \* Processor.Stopped()
    events,      \* the events submitted so far and their processing
    monitors,    \* the monitors created so far (a forest of cascades)
    workers,     \* the rule bodies started so far, in the order of start
    main         \* the top-level code that calls addEvent / addEventAndWait

engVars == <<rulePrio, procStopped, events, monitors, workers, main>>

VARIABLES
    mArgs,       \* the arguments of one addEvent call
    mOut         \* what the call did: its error and the rules it triggered

matchVars == <<mArgs, mOut>>

VARIABLES
    globalScope, \* ecalDebugger.globalScope: nil, or variable -> value
    threadScope, \* the scope every thread runs in (interrogationState.vs)
    lastErr      \* what the last ExtractValue / InjectValue returned

inspVars == <<globalScope, threadScope, lastErr>>

VARIABLES
    eIn,         \* the program handed to the interpreter
    eOut         \* what its evaluation returned and left behind

evalVars == <<eIn, eOut>>

\* The callers of the debug client of the editor extension
\* (ECALDebugClient): the polling loop and two requests of the debug
\* adapter. Of every caller the model keeps pc, its position; todo, the
\* command lines its call still sends (the first is the one in progress);
\* text, the response read so far; res, the last response it was given; n,
\* the calls it has made; stop and was, the stops the last two status
\* responses of the polling loop reported (0 for a running thread).
Callers == {"poll", "a", "b"}

VARIABLES
    connected,        \* ECALDebugClient.connected
    backlog,          \* ECALDebugClient.backlog
    socketLock,       \* the calls that wait for or hold the key "socket"
    calls,            \* position of every caller inside the client
    wire,             \* the command lines written to the socket
    inbox,            \* the response text not yet read from the socket
    threadInspection, \* ECALDebugClient.threadInspection (its keys)
    server,           \* the debug server and the thread it debugs
    emitted,          \* the stops for which pauseOnBreakpoint was emitted
    issued            \* commands issued so far

cliVars == <<connected, backlog, socketLock, calls, wire, inbox,
             threadInspection, server, emitted, issued>>

vars == <<dbgVars, engVars, matchVars, inspVars, evalVars, cliVars>>

\* A state that is created as already running.
newInterrogationState_running(node) ==
    [running |-> TRUE, cmd |-> Stop, stepOutStack |-> 0, node |-> node]

\* interrogationState; stepOutStack holds len(is.stepOutStack), the only
\* thing the code reads from the snapshot (VisitStepOutState).
newInterrogationState(node) ==
    [running |-> FALSE, cmd |-> Stop, stepOutStack |-> 0, node |-> node]

HasState(t) == t \in DOMAIN interrogationStates

Stack(t) == IF t \in DOMAIN callStacks THEN callStacks[t] ELSE <<>>

\* Positions of a thread: "run" outside the hooks, "reg" before the
\* registration of a new interrogation state (lines 386-391), "park"
\* before cond.Wait, "wait" inside cond.Wait, "woken" after a Broadcast.
Idle == [pc |-> "run", hook |-> "none", site |-> "none", node |-> NoToken]

Blocked == {"reg", "park", "wait"}

\* History of the last effective Continue of a thread: its kind, the line
\* and call depth the thread was suspended at, whether the thread has
\* entered a call since, and whether the step is over (the
\* thread was suspended again or lost its interrogation state).
NoStep ==
    [kind |-> "none", line |-> NoToken, depth |-> 0, called |-> FALSE,
     over |-> TRUE]


\* VisitState line 381: an active break point of the line, or breakOnStart.
BreakHit(n) == (n \in DOMAIN breakPoints /\ breakPoints[n]) \/ breakOnStart

\* VisitState line 370: a thread under Stop, StepIn or StepOver is stopped.
StopsOnVisit(is, n) == is.node # n \/ is.cmd = Stop

\* The Resume case returning after the delete instead of visiting the node
\* again without a state.
VisitCore_noRevisit(t, n) ==
    LET pass == [ist |-> interrogationStates, to |-> "run"]
        fresh(ist) == [ist |-> ist, to |-> IF BreakHit(n) THEN "reg" ELSE "run"]
    IN  IF n = NoToken THEN pass
        ELSE IF HasState(t) THEN
            LET is == interrogationStates[t] IN
            IF is.cmd = Resume THEN
                IF is.node # n
                THEN [ist |-> Del(interrogationStates, t), to |-> "run"]
                ELSE pass
            ELSE IF is.cmd \in {Stop, StepIn, StepOver} THEN
                IF StopsOnVisit(is, n)
                THEN [ist |-> [interrogationStates EXCEPT
                                   ![t].node = n, ![t].running = FALSE],
                      to |-> "park"]
                ELSE pass
            ELSE pass
        ELSE fresh(interrogationStates)

\* VisitState lines 340-397 up to the point where the thread blocks: the
\* interrogation states it leaves and the position the thread goes to.
VisitCore(t, n) ==
    LET pass == [ist |-> interrogationStates, to |-> "run"]
        fresh(ist) == [ist |-> ist, to |-> IF BreakHit(n) THEN "reg" ELSE "run"]
    IN  IF n = NoToken THEN pass
        ELSE IF HasState(t) THEN
            LET is == interrogationStates[t] IN
            IF is.cmd = Resume THEN
                IF is.node # n
                THEN fresh(Del(interrogationStates, t))
                ELSE pass
            ELSE IF is.cmd \in {Stop, StepIn, StepOver} THEN
                IF StopsOnVisit(is, n)
                THEN [ist |-> [interrogationStates EXCEPT
                                   ![t].node = n, ![t].running = FALSE],
                      to |-> "park"]
                ELSE pass
            ELSE pass
        ELSE fresh(interrogationStates)

\* Where a thread that leaves "run" inside a hook stands, and what stopped
\* it: a command, an active break point of the line or, read only when
\* the line has none (line 381), breakOnStart.
InHook(hook, to, n) ==
    [pc |-> to, hook |-> hook,
     site |-> IF to # "reg" THEN "command"
              ELSE IF n \in DOMAIN breakPoints /\ breakPoints[n]
              THEN "breakpoint" ELSE "breakOnStart",
     node |-> n]

\* VisitState lines 327-338: make the debugger aware of the thread.
KnownStacks(t) ==
    IF t \in DOMAIN callStacks THEN callStacks ELSE Put(callStacks, t, <<>>)

\* VisitState(node, vs, tid) up to its return or to the point where it blocks.
VisitState(t, n) ==
    /\ ~panicked
    /\ thr[t].pc = "run"
    /\ steps < MaxSteps
    /\ steps' = steps + 1
    /\ callStacks' = KnownStacks(t)
    /\ sources' = IF n = NoToken THEN sources ELSE sources \cup {TheSource}
    /\ LET o == VisitCore(t, n) IN
        /\ interrogationStates' = o.ist
        /\ thr' = [thr EXCEPT ![t] =
                     IF o.to = "run" THEN Idle ELSE InHook("VisitState", o.to, n)]
        /\ step' = IF o.to = "run" /\ t \in DOMAIN o.ist
                   THEN step ELSE [step EXCEPT ![t].over = TRUE]
    /\ UNCHANGED <<engVars, matchVars, inspVars, evalVars, cliVars>>
    /\ UNCHANGED <<breakPoints, breakOnStart, panicked>>

\* VisitState lines 386-391: note the position in the thread specific map.
Register(t) ==
    /\ ~panicked
    /\ thr[t].pc = "reg"
    /\ breakOnStart' = FALSE
    /\ interrogationStates' =
           Put(interrogationStates, t, newInterrogationState(thr[t].node))
    /\ thr' = [thr EXCEPT ![t].pc = "park"]
    /\ UNCHANGED <<engVars, matchVars, inspVars, evalVars, cliVars>>
    /\ UNCHANGED <<breakPoints, callStacks, sources, step, steps, panicked>>

\* VisitState lines 375-376 and 393-394: the thread enters cond.Wait.
Park(t) ==
    /\ ~panicked
    /\ thr[t].pc = "park"
    /\ thr' = [thr EXCEPT ![t].pc = "wait"]
    /\ UNCHANGED <<engVars, matchVars, inspVars, evalVars, cliVars>>
    /\ UNCHANGED <<breakPoints, interrogationStates, callStacks, sources,
                   breakOnStart, step, steps, panicked>>

\* The command switch without its StepIn case.
EnterCall_noStepIn(t, n, ist) ==
    LET is == ist[t]
        stack == Stack(t)
    IN  IF t \in DOMAIN ist /\ is.cmd = StepOver
        THEN [ist EXCEPT ![t].cmd = StepOut, ![t].stepOutStack = Len(stack)]
        ELSE ist

\* VisitStepInState lines 427-440: the command switch and the push.
EnterCall(t, n, ist) ==
    LET is == ist[t]
        stack == Stack(t)
    IN  IF t \in DOMAIN ist
        THEN CASE is.cmd = StepIn -> [ist EXCEPT ![t].cmd = Stop]
               [] is.cmd = StepOver ->
                    [ist EXCEPT ![t].cmd = StepOut,
                                ![t].stepOutStack = Len(stack)]
               [] OTHER -> ist
        ELSE ist

\* The history of a thread that pushes a call.
StepCalled(t) ==
    IF ~step[t].over
    THEN [step EXCEPT ![t].called = TRUE]
    ELSE step

\* VisitStepInState(node, vs, tid); under the command Stop it calls
\* VisitState first and may block there.
VisitStepInState(t, n) ==
    /\ ~panicked
    /\ thr[t].pc = "run"
    /\ steps < MaxSteps
    /\ steps' = steps + 1
    /\ Len(Stack(t)) < MaxDepth
    /\ IF HasState(t) /\ interrogationStates[t].cmd = Stop /\ n # NoToken
       THEN /\ callStacks' = KnownStacks(t)
            /\ sources' = sources \cup {TheSource}
            /\ interrogationStates' = VisitCore(t, n).ist
            /\ thr' = [thr EXCEPT ![t] =
                         InHook("VisitStepInState", VisitCore(t, n).to, n)]
            /\ step' = [step EXCEPT ![t].over = TRUE]
       ELSE /\ interrogationStates' = EnterCall(t, n, interrogationStates)
            /\ callStacks' = Put(callStacks, t, Append(Stack(t), n))
            /\ step' = StepCalled(t)
            /\ UNCHANGED <<sources, thr>>
    /\ UNCHANGED <<engVars, matchVars, inspVars, evalVars, cliVars>>
    /\ UNCHANGED <<breakPoints, breakOnStart, panicked>>

\* The thread returns from cond.Wait and leaves the hook it was blocked in.
Woken(t) ==
    /\ ~panicked
    /\ thr[t].pc = "woken"
    /\ thr' = [thr EXCEPT ![t] = Idle]
    /\ IF thr[t].hook = "VisitStepInState"
       THEN /\ interrogationStates' =
                   EnterCall(t, thr[t].node, interrogationStates)
            /\ callStacks' = Put(callStacks, t, Append(Stack(t), thr[t].node))
            /\ step' = StepCalled(t)
       ELSE UNCHANGED <<interrogationStates, callStacks, step>>
    /\ UNCHANGED <<engVars, matchVars, inspVars, evalVars, cliVars>>
    /\ UNCHANGED <<breakPoints, sources, breakOnStart, steps, panicked>>

\* VisitStepOutState lines 462-475: a step over or out ends at the target.
LeaveCall(t, stack) ==
    IF HasState(t) /\ interrogationStates[t].cmd \in {StepOver, StepOut}
       /\ Len(stack) = interrogationStates[t].stepOutStack
    THEN [interrogationStates EXCEPT ![t].cmd = Stop]
    ELSE interrogationStates

\* VisitStepOutState(node, vs, tid) for the call on top of the stack.
VisitStepOutState(t) ==
    /\ ~panicked
    /\ thr[t].pc = "run"
    /\ steps < MaxSteps
    /\ steps' = steps + 1
    /\ Len(Stack(t)) > 0
    /\ LET stack == SubSeq(Stack(t), 1, Len(Stack(t)) - 1) IN
        /\ callStacks' = Put(callStacks, t, stack)
        /\ interrogationStates' = LeaveCall(t, stack)
    /\ UNCHANGED <<engVars, matchVars, inspVars, evalVars, cliVars>>
    /\ UNCHANGED <<breakPoints, sources, breakOnStart, thr, step, panicked>>

\* The step out target taken as the whole stack instead of the stack
\* without its top frame.
ContinueCmd_fullStack(is, contType, stack) ==
    IF contType = StepOut
    THEN [is EXCEPT !.cmd = StepOut, !.stepOutStack = Len(stack)]
    ELSE [is EXCEPT !.cmd = contType]

\* Continue lines 596-607: the command and the step out target.
ContinueCmd(is, contType, stack) ==
    IF contType = StepOut
    THEN [is EXCEPT !.cmd = StepOut, !.stepOutStack = Len(stack) - 1]
    ELSE [is EXCEPT !.cmd = contType]

\* A thread counted as suspended as soon as it has an interrogation state.
Suspended_anyState(t) == HasState(t)

\* Continue line 594, ExtractValue line 531, InjectValue line 561: the thread
\* has an interrogation state that does not say running.
Suspended(t) == HasState(t) /\ ~interrogationStates[t].running

\* One condition shared by all interrogation states: the broadcast reaches
\* every waiting thread.
Broadcast_global(t) ==
    [u \in Threads |->
        IF thr[u].pc = "wait" THEN [thr[u] EXCEPT !.pc = "woken"] ELSE thr[u]]

\* Continue lines 611-613: is.cond.Broadcast() on the condition of the
\* interrogation state of the thread (newInterrogationState gives every
\* state a condition of its own); it reaches the thread if it waits.
Broadcast(t) ==
    [thr EXCEPT ![t].pc = IF @ = "wait" THEN "woken" ELSE @]

\* Continue(threadId, contType); stack[:len(stack)-1] of an empty stack is a
\* runtime panic.
Continue(t, contType) ==
    /\ ~panicked
    /\ steps < MaxSteps
    /\ steps' = steps + 1
    /\ IF Suspended(t)
       THEN IF contType = StepOut /\ Len(Stack(t)) = 0
            THEN /\ panicked' = TRUE
                 /\ interrogationStates' =
                        [interrogationStates EXCEPT ![t].cmd = StepOut]
                 /\ UNCHANGED <<thr, step>>
            ELSE /\ interrogationStates' =
                        [interrogationStates EXCEPT ![t] =
                            [ContinueCmd(@, contType, Stack(t))
                                EXCEPT !.running = TRUE]]
                 /\ thr' = Broadcast(t)
                 /\ step' = [step EXCEPT ![t] =
                                [kind |-> contType,
                                 line |-> interrogationStates[t].node,
                                 depth |-> Len(Stack(t)), called |-> FALSE,
                                 over |-> FALSE]]
                 /\ UNCHANGED panicked
       ELSE UNCHANGED <<interrogationStates, thr, step, panicked>>
    /\ UNCHANGED <<engVars, matchVars, inspVars, evalVars, cliVars>>
    /\ UNCHANGED <<breakPoints, callStacks, sources, breakOnStart>>

SetBreakPoint(line) ==
    /\ ~panicked
    /\ steps < MaxSteps
    /\ steps' = steps + 1
    /\ breakPoints' = Put(breakPoints, line, TRUE)
    /\ UNCHANGED <<engVars, matchVars, inspVars, evalVars, cliVars>>
    /\ UNCHANGED <<interrogationStates, callStacks, sources, breakOnStart,
                   thr, step, panicked>>

DisableBreakPoint(line) ==
    /\ ~panicked
    /\ steps < MaxSteps
    /\ steps' = steps + 1
    /\ breakPoints' = Put(breakPoints, line, FALSE)
    /\ UNCHANGED <<engVars, matchVars, inspVars, evalVars, cliVars>>
    /\ UNCHANGED <<interrogationStates, callStacks, sources, breakOnStart,
                   thr, step, panicked>>

RemoveBreakPoint(line) ==
    /\ ~panicked
    /\ steps < MaxSteps
    /\ steps' = steps + 1
    /\ breakPoints' = Del(breakPoints, line)
    /\ UNCHANGED <<engVars, matchVars, inspVars, evalVars, cliVars>>
    /\ UNCHANGED <<interrogationStates, callStacks, sources, breakOnStart,
                   thr, step, panicked>>

BreakOnStart(flag) ==
    /\ ~panicked
    /\ steps < MaxSteps
    /\ steps' = steps + 1
    /\ breakOnStart' = flag
    /\ UNCHANGED <<engVars, matchVars, inspVars, evalVars, cliVars>>
    /\ UNCHANGED <<breakPoints, interrogationStates, callStacks, sources,
                   thr, step, panicked>>

NextDebug ==
    \/ \E t \in Threads, n \in Nodes : VisitState(t, n)
    \/ \E t \in Threads : Register(t)
    \/ \E t \in Threads : Park(t)
    \/ \E t \in Threads : Woken(t)
    \/ \E t \in Threads, n \in Lines : VisitStepInState(t, n)
    \/ \E t \in Threads : VisitStepOutState(t)
    \/ \E t \in Threads, c \in ContTypes : Continue(t, c)
    \/ \E l \in Lines : SetBreakPoint(l)
    \/ \E l \in Lines : DisableBreakPoint(l)
    \/ \E l \in Lines : RemoveBreakPoint(l)
    \/ \E f \in BOOLEAN : BreakOnStart(f)

(***************************************************************************)
(*                  addEvent / addEventAndWait: VALUES                     *)
(***************************************************************************)

\* ECAL values as the built-in functions see them (interface{}): the
\* dynamic type and the text fmt.Sprint gives. Strings that the code takes
\* apart (the event kind) are sequences of characters.
Bool(b) == [type |-> "bool", str |-> IF b THEN "true" ELSE "false"]

Str(s) == [type |-> "string", str |-> s]

Num(s) == [type |-> "number", str |-> s]

Null == [type |-> "null", str |-> "<nil>"]

MapVal(m) == [type |-> "map", str |-> "map", map |-> m]

\* fmt.Sprint(v)
Sprint(v) == v.str

\* error values: nil and the errors of the built-in functions
Nil == "nil"

\* inbuildBaseFunc.AssertMapParam
AssertMapParam(index, val) ==
    IF val.type = "map" THEN [map |-> val.map, err |-> Nil]
    ELSE [map |-> EmptyMap,
          err |-> IF index = 3 THEN "Parameter 3 should be a map"
                  ELSE "Parameter 4 should be a map"]

RECURSIVE SplitFrom(_, _, _)
\* strings.Split(s, "."), with acc the closed segments and cur the open one
SplitFrom(s, acc, cur) ==
    IF s = <<>> THEN Append(acc, cur)
    ELSE IF Head(s) = "." THEN SplitFrom(Tail(s), Append(acc, cur), <<>>)
         ELSE SplitFrom(Tail(s), acc, Append(cur, Head(s)))

\* A kind that is kept as one segment.
Split_whole(s) == <<s>>

\* strings.Split(fmt.Sprint(args[1]), ".")
Split(s) == SplitFrom(s, <<>>, <<>>)

RECURSIVE Join(_)
\* strings.Join(kind, ".")
Join(segs) ==
    IF Len(segs) = 0 THEN <<>>
    ELSE IF Len(segs) = 1 THEN segs[1]
         ELSE segs[1] \o <<".">> \o Join(Tail(segs))

\* strconv.ParseBool: the value; the error is dropped by the caller (b, _ :=)
ParseBool(str) == str \in {"1", "t", "T", "TRUE", "true", "True"}

\* addEvent lines 653-658: the scope map of the call as map[string]bool
ScopeData(scopeMap) ==
    [k \in DOMAIN scopeMap |-> ParseBool(Sprint(scopeMap[k]))]

\* A *engine.RuleScope that is nil (no scope argument).
NoScope == [given |-> FALSE, data |-> EmptyMap]

\* engine.NewRuleScope(scopeData)
NewRuleScope(scopeData) == [given |-> TRUE, data |-> scopeData]

\* engine.NewEvent(name, kind, state)
NewEvent(name, kind, state) == [name |-> name, kind |-> kind, state |-> state]

\* addevent.addEvent up to the call of addFunc (lines 634-667): the error,
\* and when there is none the event and the scope handed to addFunc.
PrepareEvent(args) ==
    IF ~(Len(args) > 2)
    THEN [err |-> "Need at least three parameters: name, kind and state",
          event |-> Null, scope |-> NoScope]
    ELSE LET st == AssertMapParam(3, args[3])
         IN  IF st.err # Nil
             THEN [err |-> st.err, event |-> Null, scope |-> NoScope]
             ELSE LET event == NewEvent(Sprint(args[1]),
                                        Split(Sprint(args[2])), st.map)
                  IN  IF Len(args) > 3
                      THEN LET sc == AssertMapParam(4, args[4])
                           IN  IF sc.err # Nil
                               THEN [err |-> sc.err, event |-> event,
                                     scope |-> NoScope]
                               ELSE [err |-> Nil, event |-> event,
                                     scope |-> NewRuleScope(ScopeData(sc.map))]
                      ELSE [err |-> Nil, event |-> event, scope |-> NoScope]

(***************************************************************************)
(*              EVENT ENGINE: rules, rule scope and matching               *)
(***************************************************************************)

\* The scope data an event is matched against, from the scope of its root;
\* a root monitor that was created without one has { "": true }.
ScopeOf(scope) ==
    IF scope.given THEN scope.data ELSE [k \in {""} |-> TRUE]

\* A kindmatch glob against a kind path: segment by segment, "*" stands
\* for any one segment.
KindMatch(pattern, kind) ==
    LET p == SplitFrom(pattern, <<>>, <<>>)
    IN  /\ Len(p) = Len(kind)
        /\ \A i \in 1 .. Len(p) : p[i] = <<"*">> \/ p[i] = kind[i]

\* Every capability of scopematch is present and true in the rule scope.
ScopeMatch(scopematch, scope) ==
    \A c \in scopematch : c \in DOMAIN scope /\ scope[c]

\* Every key of statematch is in the state, with the required value
\* unless that is null.
StateMatch(statematch, state) ==
    \A k \in DOMAIN statematch :
        /\ k \in DOMAIN state
        /\ statematch[k] = Null \/ state[k] = statematch[k]

\* matches(E, R)
Matches(rule, event, scope) ==
    /\ \E p \in rule.kindmatch : KindMatch(p, event.kind)
    /\ ScopeMatch(rule.scopematch, scope)
    /\ StateMatch(rule.statematch, event.state)

(***************************************************************************)
(*      One addEvent call against a table of rules (matching only)        *)
(***************************************************************************)

\* Longest kind string of a call.
MaxKindLen == 3

\* The kind strings of the calls: the characters a, b and the dot.
KindStrings == UNION {[1 .. n -> {"a", "b", "."}] : n \in 0 .. MaxKindLen}

StateKeys == {"val"}

\* The argument lists of the calls: too few arguments, a state or a scope
\* that is no map, and every well-formed call with and without scope
\* (capabilities r and w; state values x, y and null).
MatchArgs ==
    LET name == Str("e")
        ScopeVals == {Bool(TRUE), Bool(FALSE), Num("1")}
        ScopeMaps == UNION {[c -> ScopeVals] : c \in SUBSET {"r", "w"}}
        StateVals == {Str("x"), Str("y"), Null}
        StateMaps == UNION {[k -> StateVals] : k \in SUBSET StateKeys}
    IN  {<<name, Str(k)>> : k \in {<<"a">>}}
        \cup {<<name, Str(k), Str("x")>> : k \in {<<"a">>}}
        \cup {<<name, Str(k), MapVal(EmptyMap), Str("x")>> : k \in {<<"a">>}}
        \cup {<<name, Str(k), MapVal(st)>> :
                 k \in KindStrings, st \in StateMaps}
        \cup {<<name, Str(k), MapVal(st), MapVal(sc)>> :
                 k \in KindStrings, st \in StateMaps, sc \in ScopeMaps}

\* The sinks of the table: every combination of the criteria below.
MatchRules ==
    LET Patterns == {<<"a", ".", "*">>, <<"*">>, <<"a", ".", "b">>} IN
    {[kindmatch |-> km, scopematch |-> sm, statematch |-> st] :
        km \in {x \in SUBSET Patterns : Cardinality(x) <= 2},
        sm \in {{}, {"w"}, {"r", "w"}},
        st \in {EmptyMap, [k \in StateKeys |-> Null],
                [k \in StateKeys |-> Str("x")]}}

NotCalled == [called |-> FALSE, err |-> Nil, triggered |-> {}]


\* addEvent(args) from top-level code: the event is submitted under a new
\* root monitor with the scope of the call; the rules it triggers.
MatchSubmit ==
    /\ ~mOut.called
    /\ LET p == PrepareEvent(mArgs)
       IN  mOut' = [called |-> TRUE, err |-> p.err,
                    triggered |->
                        IF p.err # Nil THEN {}
                        ELSE {r \in MatchRules :
                                 Matches(r, p.event, ScopeOf(p.scope))}]
    /\ UNCHANGED mArgs
    /\ UNCHANGED <<dbgVars, engVars, inspVars, evalVars, cliVars>>

(***************************************************************************)
(*          EVENT ENGINE: processor, monitors, rule execution              *)
(***************************************************************************)

\* Largest priority a sink declares.
MaxPrio == 3

RuleNames == {"A", "B", "C", "D"}

\* The lexicographic order of the rule names.
NameRank == [A |-> 1, B |-> 2, C |-> 3, D |-> 4]

KindPage == <<"a", ".", "b">>

KindLog == <<"b">>

KindOther == <<"b", ".", "b">>

AddEventOp(args) == [op |-> "addEvent", args |-> args]

RaiseOp(args) == [op |-> "raise", args |-> args]

\* The sinks of the program. A, B and C handle the page events, D the log
\* events; A suppresses B and B suppresses C. A publishes a log event in
\* its own cascade and fails, B fails, C publishes a log event with a scope
\* of its own, D fails.
RuleTable ==
    [A |-> [kindmatch |-> {<<"a", ".", "*">>}, scopematch |-> {},
            statematch |-> EmptyMap, suppresses |-> {"B"},
            body |-> <<AddEventOp(<<Str("log"), Str(KindLog),
                                    MapVal(EmptyMap)>>),
                       RaiseOp(<<Str("ErrA"), Str("detail"), Null>>)>>],
     B |-> [kindmatch |-> {KindPage}, scopematch |-> {},
            statematch |-> EmptyMap, suppresses |-> {"C"},
            body |-> <<RaiseOp(<<Str("ErrB")>>)>>],
     C |-> [kindmatch |-> {<<"*", ".", "b">>}, scopematch |-> {},
            statematch |-> EmptyMap, suppresses |-> {},
            body |-> <<AddEventOp(<<Str("audit"), Str(KindLog),
                                    MapVal(EmptyMap),
                                    MapVal([k \in {"w"} |-> Bool(TRUE)])>>)>>],
     D |-> [kindmatch |-> {KindLog}, scopematch |-> {},
            statematch |-> EmptyMap, suppresses |-> {},
            body |-> <<RaiseOp(<<Str("ErrD"), Null, Str("data")>>)>>]]

Priority(r) == rulePrio[r]

\* The root monitor of a monitor.
Root(m) == monitors[m].root

\* The rules an event triggers: those that match it under the scope of
\* the root monitor it was submitted with.
Triggering(e) ==
    {r \in RuleNames :
        Matches(RuleTable[r], events[e],
                ScopeOf(monitors[Root(events[e].monitor)].scope))}

RECURSIVE IsSuppressed(_, _)
\* Suppression by the rules of higher priority value.
IsSuppressed_reversed(r, T) ==
    \E s \in T : /\ Priority(s) > Priority(r)
                 /\ r \in RuleTable[s].suppresses
                 /\ ~IsSuppressed(s, T)

\* r is suppressed among the matching rules T: a matching rule of strictly
\* lower priority that is not itself suppressed lists it.
IsSuppressed(r, T) ==
    \E s \in T : /\ Priority(s) < Priority(r)
                 /\ r \in RuleTable[s].suppresses
                 /\ ~IsSuppressed(s, T)

\* r runs before s: ascending priority, ties by rule name.
Before(r, s) ==
    \/ Priority(r) < Priority(s)
    \/ Priority(r) = Priority(s) /\ NameRank[r] < NameRank[s]

RECURSIVE Ordered(_)
\* The rules in the order of the rule names alone.
Ordered_byName(S) ==
    CHOOSE q \in [1 .. Cardinality(S) -> S] :
        \A i, j \in 1 .. Cardinality(S) :
            i < j => NameRank[q[i]] < NameRank[q[j]]

\* The rules of S in the order of execution.
Ordered(S) ==
    IF S = {} THEN <<>>
    ELSE LET first == CHOOSE r \in S : \A s \in S \ {r} : Before(r, s)
         IN  <<first>> \o Ordered(S \ {first})

\* The rules whose bodies run for an event, in the order they are started.
Executing(e) ==
    LET T == Triggering(e)
    IN  Ordered({r \in T : ~IsSuppressed(r, T)})

\* proc.NewRootMonitor(nil, scope), as monitor id
NewRootMonitor(id, scope) ==
    [parent |-> 0, root |-> id, scope |-> scope, pending |-> 0,
     errors |-> <<>>]

\* Monitor.NewChildMonitor(0), as monitor id; it reports to the root of
\* its parent.
NewChildMonitor(id, parent) ==
    [parent |-> parent, root |-> Root(parent), scope |-> NoScope,
     pending |-> 0, errors |-> <<>>]

\* The root monitor counts the submitted events whose rules are not all
\* started and the started rule bodies that have not finished.
Pending(ms, m, d) ==
    [ms EXCEPT ![ms[m].root].pending = ms[ms[m].root].pending + d]

\* An event in the processor: queued, then its rules are started one by
\* one, then done. by is the rule body that published it (0: top level)
\* and call the statement of that body.
Queued(event, m, by, call) ==
    [name |-> event.name, kind |-> event.kind, state |-> event.state,
     monitor |-> m, phase |-> "queued", todo |-> <<>>, by |-> by,
     call |-> call]

\* A new monitor that takes every event of the caller into a cascade of
\* its own.
UsesNewRoot_always(scope, ok) == TRUE

\* addevent.Run line 610: scope != nil || !ok, with ok the presence of a
\* monitor in the instance state of the caller.
UsesNewRoot(scope, ok) == scope.given \/ ~ok

\* addevent.Run lines 606-617 and addeventandwait.Run line 698: the
\* monitor the event is submitted under, and the state of the processor
\* after proc.AddEvent / proc.AddEventAndWait has queued the event.
Submit(fn, p, ok, parent, by, call) ==
    LET id == Len(monitors) + 1
        mon == IF fn = "addEventAndWait" \/ UsesNewRoot(p.scope, ok)
               THEN NewRootMonitor(id, p.scope)
               ELSE NewChildMonitor(id, parent)
    IN  [monitor |-> id,
         monitors |-> Pending(Append(monitors, mon), id, 1),
         events |-> Append(events, Queued(p.event, id, by, call))]

\* raise.Run: the RuntimeErrorWithDetail of raise(type, detail, data)
RaiseError(args) ==
    [type |-> IF Len(args) > 0 THEN Sprint(args[1]) ELSE Nil,
     detail |-> IF Len(args) > 1 /\ args[2].type # "null"
                THEN Sprint(args[2]) ELSE "",
     data |-> IF Len(args) > 2 THEN args[3] ELSE Null]

NoError == [type |-> Nil, detail |-> "", data |-> Null]

\* The runtime error of a built-in function that returned an error.
CallError(err) == [type |-> err, detail |-> "", data |-> Null]

\* The root monitor records the error of a rule under the rule's event.
RecordError(errs, e, r, err) ==
    IF \E i \in 1 .. Len(errs) : errs[i].event = e
    THEN [i \in 1 .. Len(errs) |->
             IF errs[i].event = e
             THEN [errs[i] EXCEPT !.ErrorMap = Put(errs[i].ErrorMap, r, err)]
             ELSE errs[i]]
    ELSE Append(errs, [event |-> e, ErrorMap |-> Put(EmptyMap, r, err)])

\* RootMonitor.AllErrors()
AllErrors(m) == monitors[m].errors

\* addeventandwait.Run lines 706-729: the item of one event with errors
ErrorItem(x) ==
    [event |-> [name |-> events[x.event].name,
                kind |-> Join(events[x.event].kind),
                state |-> events[x.event].state],
     errors |-> [k \in DOMAIN x.ErrorMap |->
                    [error |-> <<"ECAL error", x.ErrorMap[k].type,
                                 x.ErrorMap[k].detail>>,
                     type |-> x.ErrorMap[k].type,
                     detail |-> x.ErrorMap[k].detail,
                     data |-> x.ErrorMap[k].data]]]

\* A result that keeps the item of the first event only.
ErrorItems_firstOnly(allErrors) ==
    IF allErrors = <<>> THEN <<>> ELSE <<ErrorItem(allErrors[1])>>

\* addeventandwait.Run lines 701-733: the list of {event, errors} items
ErrorItems(allErrors) ==
    [i \in 1 .. Len(allErrors) |-> ErrorItem(allErrors[i])]

\* A call that queues the event and does not wait.
ProcCall_noWait(fn) == "AddEvent"

\* The processor call of the closure: proc.AddEvent (line 616) or
\* proc.AddEventAndWait (line 699).
ProcCall(fn) ==
    IF fn = "addEventAndWait" THEN "AddEventAndWait" ELSE "AddEvent"

Functions == {"addEvent", "addEventAndWait"}

\* The error of proc.AddEvent / proc.AddEventAndWait on a processor that is
\* not running: the submission is rejected and nothing is queued.
ErrStopped == "processor is stopped"

\* A call that leaves the processor as it found it.
AutoStart_never(stopped) == stopped

\* addevent.addEvent lines 630-632: if proc.Stopped() { proc.Start() }, as
\* the value of proc.Stopped() when the closure submits the event.
AutoStart(stopped) == FALSE

\* Argument lists of the top-level calls: a page event without scope, one
\* with a scope, an event that only C handles, and a call with too few
\* arguments.
MainArgs ==
    {<<Str("request"), Str(KindPage), MapVal(EmptyMap)>>,
     <<Str("request"), Str(KindOther), MapVal(EmptyMap)>>,
     <<Str("request"), Str(KindPage), MapVal(EmptyMap),
       MapVal([k \in {"r"} |-> Bool(TRUE)])>>,
     <<Str("request"), Str(KindPage)>>}

NoCall ==
    [pc |-> "run", calls |-> 0, fn |-> "none", event |-> 0, root |-> 0,
     res |-> <<>>, err |-> Nil]


\* addevent.Run / addeventandwait.Run called by top-level code (no
\* monitor in the instance state). addEventAndWait blocks in the processor.
\* The top-level code of the program makes one call.
MainCall(fn, args) ==
    /\ main.pc = "run"
    /\ main.calls = 0
    /\ procStopped' = AutoStart(procStopped)
    /\ LET p == PrepareEvent(args)
           err == IF p.err # Nil THEN p.err
                  ELSE IF AutoStart(procStopped) THEN ErrStopped ELSE Nil
       IN  IF err # Nil
           THEN /\ main' = [NoCall EXCEPT !.calls = main.calls + 1,
                                          !.fn = fn, !.err = err]
                /\ UNCHANGED <<events, monitors>>
           ELSE LET sub == Submit(fn, p, FALSE, 0, 0, 0)
                IN  /\ events' = sub.events
                    /\ monitors' = sub.monitors
                    /\ main' = [pc |-> IF fn = "addEventAndWait"
                                       THEN "wait" ELSE "run",
                                calls |-> main.calls + 1, fn |-> fn,
                                event |-> Len(sub.events),
                                root |-> sub.monitor, res |-> <<>>,
                                err |-> Nil]
    /\ UNCHANGED <<rulePrio, workers>>
    /\ UNCHANGED <<dbgVars, matchVars, inspVars, evalVars, cliVars>>

\* proc.AddEventAndWait returns when the root monitor has nothing pending;
\* addeventandwait.Run turns the errors of the root monitor into its result.
MainReturn ==
    /\ main.pc = "wait"
    /\ ProcCall(main.fn) = "AddEventAndWait"
           => monitors[main.root].pending = 0
    /\ main' = [main EXCEPT !.pc = "run",
                            !.res = ErrorItems(AllErrors(main.root))]
    /\ UNCHANGED <<rulePrio, procStopped, events, monitors, workers>>
    /\ UNCHANGED <<dbgVars, matchVars, inspVars, evalVars, cliVars>>

\* The processor takes a queued event: the rules to run, in order.
Dispatch(e) ==
    /\ events[e].phase = "queued"
    /\ LET todo == Executing(e)
       IN  IF todo = <<>>
           THEN /\ events' = [events EXCEPT ![e].phase = "done"]
                /\ monitors' = Pending(monitors, events[e].monitor, -1)
           ELSE /\ events' = [events EXCEPT ![e].phase = "starting",
                                            ![e].todo = todo]
                /\ UNCHANGED monitors
    /\ UNCHANGED <<rulePrio, procStopped, workers, main>>
    /\ UNCHANGED <<dbgVars, matchVars, inspVars, evalVars, cliVars>>

\* The processor starts the body of the next rule of an event on a worker
\* of its own, under a child monitor of the event's monitor.
StartRule(e) ==
    /\ events[e].phase = "starting"
    /\ LET r == Head(events[e].todo)
           rest == Tail(events[e].todo)
           id == Len(monitors) + 1
           ms == Append(monitors, NewChildMonitor(id, events[e].monitor))
       IN  /\ workers' = Append(workers,
                                [event |-> e, rule |-> r, monitor |-> id,
                                 pc |-> 1, done |-> FALSE, failed |-> FALSE,
                                 err |-> NoError])
           /\ events' = [events EXCEPT
                            ![e].todo = rest,
                            ![e].phase = IF rest = <<>> THEN "done"
                                         ELSE "starting"]
           /\ monitors' = IF rest = <<>> THEN ms ELSE Pending(ms, id, 1)
    /\ UNCHANGED <<rulePrio, procStopped, main>>
    /\ UNCHANGED <<dbgVars, matchVars, inspVars, evalVars, cliVars>>

\* The next statement of a running rule body, "end" after the last one.
NextOp(w) ==
    LET body == RuleTable[workers[w].rule].body
    IN  IF workers[w].done THEN "none"
        ELSE IF workers[w].pc > Len(body) THEN "end"
             ELSE body[workers[w].pc].op

\* A rule body has ended. Its error stays in the monitor: the root monitor
\* records it under the event and the name of the rule.
Finished(w, failed, err) ==
    LET m == workers[w].monitor
        ms == IF failed
              THEN [monitors EXCEPT
                       ![Root(m)].errors =
                           RecordError(monitors[Root(m)].errors,
                                       workers[w].event, workers[w].rule,
                                       err)]
              ELSE monitors
    IN  /\ workers' = [workers EXCEPT ![w].done = TRUE,
                                      ![w].failed = failed, ![w].err = err]
        /\ monitors' = Pending(ms, m, -1)

\* addevent.Run called by a rule body: the instance state carries the
\* monitor of the rule.
BodyAddEvent(w) ==
    /\ NextOp(w) = "addEvent"
    /\ procStopped' = AutoStart(procStopped)
    /\ LET p == PrepareEvent(RuleTable[workers[w].rule].body[workers[w].pc].args)
           err == IF p.err # Nil THEN p.err
                  ELSE IF AutoStart(procStopped) THEN ErrStopped ELSE Nil
       IN  IF err # Nil
           THEN /\ Finished(w, TRUE, CallError(err))
                /\ UNCHANGED events
           ELSE LET sub == Submit("addEvent", p, TRUE, workers[w].monitor, w,
                                  workers[w].pc)
                IN  /\ events' = sub.events
                    /\ monitors' = sub.monitors
                    /\ workers' = [workers EXCEPT ![w].pc = workers[w].pc + 1]
    /\ UNCHANGED <<rulePrio, main>>
    /\ UNCHANGED <<dbgVars, matchVars, inspVars, evalVars, cliVars>>

\* raise.Run called by a rule body: the body fails.
BodyRaise(w) ==
    /\ NextOp(w) = "raise"
    /\ Finished(w, TRUE,
                RaiseError(RuleTable[workers[w].rule].body[workers[w].pc].args))
    /\ UNCHANGED <<rulePrio, procStopped, events, main>>
    /\ UNCHANGED <<dbgVars, matchVars, inspVars, evalVars, cliVars>>

\* A rule body ends after its last statement.
BodyEnd(w) ==
    /\ NextOp(w) = "end"
    /\ Finished(w, FALSE, NoError)
    /\ UNCHANGED <<rulePrio, procStopped, events, main>>
    /\ UNCHANGED <<dbgVars, matchVars, inspVars, evalVars, cliVars>>

NextEngine ==
    \/ \E fn \in Functions, args \in MainArgs : MainCall(fn, args)
    \/ MainReturn
    \/ \E e \in 1 .. Len(events) : Dispatch(e)
    \/ \E e \in 1 .. Len(events) : StartRule(e)
    \/ \E w \in 1 .. Len(workers) : BodyAddEvent(w)
    \/ \E w \in 1 .. Len(workers) : BodyRaise(w)
    \/ \E w \in 1 .. Len(workers) : BodyEnd(w)

(***************************************************************************)
(*              DEBUGGER: ExtractValue and InjectValue                     *)
(***************************************************************************)

\* Variables of the scope of a thread the console asks for.
ThreadVarNames == {"x", "y"}

\* Expressions the console injects: number literals and a text that the
\* parser rejects.
Expressions == {"7", "("}

\* NewECALDebugger(nil): a debugger without global scope.
NoGlobalScope == [given |-> FALSE, data |-> <<EmptyMap>>]

\* The error a call returns, with the thread id its text names.
Err(msg, tid) == [msg |-> msg, tid |-> tid]

NoErr == Err("nil", 0)

\* A scope is the chain of its bindings from the root scope down to the
\* scope itself: vs[1] holds the bindings of the root, vs[Len(vs)] its own.
\* Scope.GetValue walks up to the root: the value of the nearest scope that
\* defines the variable, and whether there is one.
GetValue(vs, varName) ==
    LET holders == {i \in 1 .. Len(vs) : varName \in DOMAIN vs[i]} IN
    IF holders # {}
    THEN [val |-> vs[CHOOSE i \in holders : \A j \in holders : j <= i][varName],
          ok |-> TRUE]
    ELSE [val |-> Null, ok |-> FALSE]

\* A SetValue that always binds in the scope itself.
SetValue_local(vs, varName, val) ==
    [vs EXCEPT ![Len(vs)] = Put(@, varName, val)]

\* Scope.SetValue writes in the nearest ancestor that defines the variable,
\* otherwise in the scope itself.
SetValue(vs, varName, val) ==
    LET holders == {i \in 1 .. Len(vs) : varName \in DOMAIN vs[i]}
        target == IF holders # {}
                  THEN CHOOSE i \in holders : \A j \in holders : j <= i
                  ELSE Len(vs)
    IN  [vs EXCEPT ![target] = Put(@, varName, val)]

\* ExtractValue lines 521-543: the error returned and the global scope left.
ExtractResult(t, varName, destVarName) ==
    IF ~globalScope.given
    THEN [err |-> Err("Cannot access global scope", 0), global |-> globalScope]
    ELSE IF Suspended(t)
    THEN IF GetValue(threadScope[t], varName).ok
         THEN [err |-> NoErr,
               global |-> [globalScope EXCEPT !.data =
                   SetValue(@, destVarName,
                            GetValue(threadScope[t], varName).val)]]
         ELSE [err |-> Err("No such value", 0), global |-> globalScope]
    ELSE [err |-> Err("Cannot find suspended thread", t),
          global |-> globalScope]

\* ExtractValue(threadId, varName, destVarName).
ExtractValue(t, varName, destVarName) ==
    /\ ~panicked
    /\ steps < MaxSteps
    /\ steps' = steps + 1
    /\ globalScope' = ExtractResult(t, varName, destVarName).global
    /\ lastErr' = ExtractResult(t, varName, destVarName).err
    /\ UNCHANGED <<engVars, matchVars, evalVars, cliVars, threadScope>>
    /\ UNCHANGED <<breakPoints, interrogationStates, callStacks, sources,
                   breakOnStart, thr, step, panicked>>

\* InjectValue lines 565-577: parse, validate and evaluate the expression.
EvalExpression(expression) ==
    IF expression = "("
    THEN [err |-> Err("Parse error", 0), val |-> Null]
    ELSE [err |-> NoErr, val |-> Num(expression)]

\* InjectValue lines 551-584: the error returned and the scope of the
\* thread as the call leaves it.
InjectResult(t, varName, expression) ==
    IF ~globalScope.given
    THEN [err |-> Err("Cannot access global scope", 0), vs |-> threadScope[t]]
    ELSE IF Suspended(t)
    THEN IF EvalExpression(expression).err = NoErr
         THEN [err |-> NoErr,
               vs |-> SetValue(threadScope[t], varName,
                               EvalExpression(expression).val)]
         ELSE [err |-> EvalExpression(expression).err, vs |-> threadScope[t]]
    ELSE [err |-> Err("Cannot find suspended thread", t),
          vs |-> threadScope[t]]

\* InjectValue(threadId, varName, expression).
InjectValue(t, varName, expression) ==
    /\ ~panicked
    /\ steps < MaxSteps
    /\ steps' = steps + 1
    /\ threadScope' =
           [threadScope EXCEPT ![t] = InjectResult(t, varName, expression).vs]
    /\ lastErr' = InjectResult(t, varName, expression).err
    /\ UNCHANGED <<engVars, matchVars, evalVars, cliVars, globalScope>>
    /\ UNCHANGED <<breakPoints, interrogationStates, callStacks, sources,
                   breakOnStart, thr, step, panicked>>

\* A debugging session in which the console inspects the threads.
NextInspect ==
    \/ \E t \in Threads, n \in Nodes : VisitState(t, n)
    \/ \E t \in Threads : Register(t)
    \/ \E t \in Threads : Park(t)
    \/ \E t \in Threads : Woken(t)
    \/ \E t \in Threads, c \in ContTypes : Continue(t, c)
    \/ \E l \in Lines : SetBreakPoint(l)
    \/ \E t \in Threads, v \in ThreadVarNames, d \in {"g"} :
          ExtractValue(t, v, d)
    \/ \E t \in Threads, v \in ThreadVarNames, e \in Expressions :
          InjectValue(t, v, e)

(***************************************************************************)
(*          INTERPRETER: statements, if, guard, loop, range                *)
(***************************************************************************)

\* Iterations a run may start before it counts as still running.
MaxIter == 10

\* Numbers of the programs: range bounds lie in -MaxNum .. MaxNum.
MaxNum == 2

\* Number of guards of an if statement (if, elif, elif).
MaxGuards == 3

\* Go values behind interface{}: the dynamic type and what it holds. A
\* string holds its text in str, a number its value in num and the text
\* fmt.Sprint gives for it in str.
GoValue(type, num, str, items) ==
    [type |-> type, num |-> num, str |-> str, items |-> items, ref |-> 0]

\* A slice ([]interface{}) or a map (map[interface{}]interface{}): a
\* reference to the array or map at address addr of the heap; a slice has
\* a length of its own.
Ref(type, addr, len) ==
    [type |-> type, num |-> len, str |-> "", items |-> <<>>, ref |-> addr]

GoNil == GoValue("nil", 0, "", <<>>)

GoBool(b) == GoValue("bool", IF b THEN 1 ELSE 0, "", <<>>)

\* ECAL numbers (numberValueRuntime.numValue).
Float64(n) ==
    LET digit == <<"0", "1", "2", "3", "4", "5", "6", "7", "8", "9">>
        RECURSIVE text(_)
        text(m) == IF m < 10 THEN digit[m + 1]
                   ELSE text(m \div 10) \o digit[(m % 10) + 1]
    IN  GoValue("float64", n, IF n < 0 THEN "-" \o text(0 - n) ELSE text(n),
                <<>>)

\* util.ErrIsIterator, util.ErrEndOfIteration, util.ErrContinueIteration.
ErrIsIterator == "ErrIsIterator"

ErrEndOfIteration == "ErrEndOfIteration"

ErrContinueIteration == "ErrContinueIteration"

\* The run was cut after MaxIter iterations: the program is still looping.
StillRunning == "StillRunning"

\* The instance state of rangeFunc: is[instanceID+"from"] and so on.
NoInstance == [set |-> FALSE, from |-> 0, to |-> 0, step |-> 0, currVal |-> 0]

\* What an evaluation works on: the scope vs (vars), the test log, the
\* instance state, the heap of arrays and maps, and the iterations left.
\* writes keeps the scope as every SetValue left it, and ties says for
\* every sort of map keys how keys of equal text come out.
NewState ==
    [vars |-> <<EmptyMap>>, log |-> <<>>, is |-> NoInstance, fuel |-> MaxIter,
     heap |-> <<>>, writes |-> <<>>, ties |-> <<>>]

\* (interface{}, error) of a runtime, with the state the evaluation leaves.
Ret(val, err, st) == [val |-> val, err |-> err, st |-> st]

\* guardRuntime.Eval line 405: ret != nil && ret != false && ret != 0. Two
\* interface values are equal when dynamic type and value are equal, and
\* the constant 0 is an int.
GuardResult(ret) ==
    ret # GoNil /\ ret # GoBool(FALSE) /\ ret # GoValue("int", 0, "", <<>>)

\* rangeFunc.Run with the end test of a half open range.
RangeRun_exclusive(is, args) ==
    IF Len(args) = 0 THEN [val |-> Float64(0), err |-> "Need at least an end range as first parameter", is |-> is]
    ELSE IF is.set
    THEN LET currVal == is.currVal IN
         [val |-> Float64(currVal),
          err |-> IF \/ (is.from < is.to /\ currVal >= is.to)
                     \/ (is.from > is.to /\ currVal <= is.to)
                     \/ is.from = is.to
                  THEN ErrEndOfIteration ELSE ErrIsIterator,
          is |-> [is EXCEPT !.currVal = currVal + is.step]]
    ELSE IF \E i \in 1 .. Len(args) : i <= 3 /\ args[i].type # "float64"
    THEN [val |-> Float64(0), err |-> "Parameter should be a number", is |-> is]
    ELSE LET from == IF Len(args) = 1 THEN 0 ELSE args[1].num
             to == IF Len(args) = 1 THEN args[1].num ELSE args[2].num
             by == IF Len(args) > 2 THEN args[3].num ELSE 1
         IN  [val |-> Float64(from), err |-> ErrIsIterator,
              is |-> [set |-> TRUE, from |-> from, to |-> to,
                      step |-> by, currVal |-> from]]

\* rangeFunc.Run(instanceID, vs, is, args): the first call stores from, to,
\* step and currVal; every later call returns currVal and moves it on.
RangeRun(is, args) ==
    IF Len(args) = 0 THEN [val |-> Float64(0), err |-> "Need at least an end range as first parameter", is |-> is]
    ELSE IF is.set
    THEN LET currVal == is.currVal IN
         [val |-> Float64(currVal),
          err |-> IF \/ (is.from < is.to /\ currVal > is.to)
                     \/ (is.from > is.to /\ currVal < is.to)
                     \/ is.from = is.to
                  THEN ErrEndOfIteration ELSE ErrIsIterator,
          is |-> [is EXCEPT !.currVal = currVal + is.step]]
    ELSE IF \E i \in 1 .. Len(args) : i <= 3 /\ args[i].type # "float64"
    THEN [val |-> Float64(0), err |-> "Parameter should be a number", is |-> is]
    ELSE LET from == IF Len(args) = 1 THEN 0 ELSE args[1].num
             to == IF Len(args) = 1 THEN args[1].num ELSE args[2].num
             by == IF Len(args) > 2 THEN args[3].num ELSE 1
         IN  [val |-> Float64(from), err |-> ErrIsIterator,
              is |-> [set |-> TRUE, from |-> from, to |-> to,
                      step |-> by, currVal |-> from]]

\* TestLogger.Run: the argument goes to the log, the result is nil.
TestLog(st, args) ==
    Ret(GoNil, Nil, [st EXCEPT !.log = Append(@, args[1])])

\* delFunc.Run lines 330-355 on the heap. For a list the result is
\* append(argList[:index], argList[index+1:]...): the elements after index
\* move one place down in the array of argList itself, and the result is a
\* slice of that array, one shorter. For a map the entry under the key
\* fmt.Sprint(args[1]), a string, is deleted from the map itself. An index
\* outside the list panics.
DelRun(heap, args) ==
    LET need == "Need a list or a map as first parameter and an index or key as second parameter"
        l == args[1]
        index == args[2].num
    IN  IF Len(args) # 2 THEN [val |-> GoNil, err |-> need, heap |-> heap]
        ELSE IF l.type = "list"
        THEN IF args[2].type # "float64"
             THEN [val |-> GoNil, err |-> "Parameter 2 should be a number",
                   heap |-> heap]
             ELSE IF index < 0 \/ index >= l.num
             THEN [val |-> GoNil, err |-> "panic", heap |-> heap]
             ELSE [val |-> Ref("list", l.ref, l.num - 1), err |-> Nil,
                   heap |-> [heap EXCEPT ![l.ref] =
                       [j \in 1 .. Len(@) |->
                           IF j > index /\ j < l.num THEN @[j + 1] ELSE @[j]]]]
        ELSE IF l.type = "map"
        THEN [val |-> l, err |-> Nil,
              heap |-> [heap EXCEPT ![l.ref] =
                  Del(@, GoValue("string", 0, Sprint(args[2]), <<>>))]]
        ELSE [val |-> GoNil, err |-> need, heap |-> heap]

\* The capacity of a slice that append has grown from nil to n elements,
\* one element at a time: the array doubles when it is full.
GrowCap(n) ==
    CHOOSE c \in {0, 1, 2, 4, 8, 16} :
        c >= n /\ \A d \in {0, 1, 2, 4, 8, 16} : d >= n => c <= d

\* append(s, v): in the array of s when it has room after the elements of
\* s, otherwise in a new array with the elements of s copied.
GoAppend(heap, s, v) ==
    IF s.num < Len(heap[s.ref])
    THEN [val |-> Ref("list", s.ref, s.num + 1),
          heap |-> [heap EXCEPT ![s.ref][s.num + 1] = v]]
    ELSE [val |-> Ref("list", Len(heap) + 1, s.num + 1),
          heap |-> Append(heap, [j \in 1 .. GrowCap(s.num + 1) |->
                                    IF j <= s.num THEN heap[s.ref][j]
                                    ELSE IF j = s.num + 1 THEN v
                                    ELSE GoNil])]

\* addFunc.Run: add(list, value) appends; add(list, value, index) appends
\* a place, moves the elements from index on one place up with copy and
\* stores the value at index. An index outside the list panics.
AddRun(heap, args) ==
    LET need == "Need a list as first parameter and a value as second parameter"
    IN  IF ~(Len(args) > 1) THEN [val |-> GoNil, err |-> need, heap |-> heap]
        ELSE IF args[1].type # "list"
        THEN [val |-> GoNil, err |-> "Parameter 1 should be a list",
              heap |-> heap]
        ELSE IF Len(args) = 3
        THEN IF args[3].type # "float64"
             THEN [val |-> GoNil, err |-> "Parameter 3 should be a number",
                   heap |-> heap]
             ELSE LET index == args[3].num
                      a == GoAppend(heap, args[1], Float64(0))
                      n == a.val.num
                  IN  IF index < 0 \/ index + 1 > n
                      THEN [val |-> GoNil, err |-> "panic", heap |-> a.heap]
                      ELSE [val |-> a.val, err |-> Nil,
                            heap |-> [a.heap EXCEPT ![a.val.ref] =
                                [j \in 1 .. Len(@) |->
                                    IF j = index + 1 THEN args[2]
                                    ELSE IF j > index + 1 /\ j <= n
                                    THEN @[j - 1] ELSE @[j]]]]
        ELSE LET a == GoAppend(heap, args[1], args[2])
             IN  [val |-> a.val, err |-> Nil, heap |-> a.heap]

RECURSIVE addSuperClasses(_, _, _, _)

\* addSuperClasses with the loops in the other order: the members of the
\* template first, those of its super classes over them.
addSuperClasses_superLast(heap, obj, template, depth) ==
    LET super == GoValue("string", 0, "super", <<>>)
        own == [heap EXCEPT ![obj.ref] =
                   [k \in DOMAIN @ \cup DOMAIN heap[template.ref] |->
                       IF k \in DOMAIN heap[template.ref]
                       THEN heap[template.ref][k] ELSE @[k]]]
        superList == IF own[template.ref][super].type = "list"
                     THEN SubSeq(own[own[template.ref][super].ref], 1,
                                 own[template.ref][super].num)
                     ELSE <<>>
        RECURSIVE supers(_, _, _)
        supers(i, h, err) ==
            IF i > Len(superList) THEN [err |-> err, heap |-> h]
            ELSE IF superList[i].type # "map" THEN supers(i + 1, h, err)
            ELSE LET r == addSuperClasses(h, obj, superList[i], depth + 1)
                 IN  IF r.err = StillRunning THEN r
                     ELSE supers(i + 1, r.heap, r.err)
    IN  IF depth > MaxIter THEN [err |-> StillRunning, heap |-> heap]
        ELSE IF super \notin DOMAIN own[template.ref]
        THEN [err |-> Nil, heap |-> own]
        ELSE IF own[template.ref][super].type # "list"
        THEN [err |-> "Property _super must be a list of super classes",
              heap |-> own]
        ELSE supers(1, own, Nil)

\* newFunc.addSuperClasses(vs, is, obj, template), lines 223-267: first the
\* super classes of the template, every map of its super list in order and
\* by the same function, then the members of the template itself, copied
\* into obj. The recursion has no end in the code; a call nested deeper
\* than MaxIter counts as still running.
addSuperClasses(heap, obj, template, depth) ==
    LET super == GoValue("string", 0, "super", <<>>)
        isList == heap[template.ref][super].type = "list"
        superList == IF isList
                     THEN SubSeq(heap[heap[template.ref][super].ref], 1,
                                 heap[template.ref][super].num)
                     ELSE <<>>
        RECURSIVE supers(_, _, _)
        supers(i, h, err) ==
            IF i > Len(superList) THEN [err |-> err, heap |-> h]
            ELSE IF superList[i].type # "map" THEN supers(i + 1, h, err)
            ELSE LET r == addSuperClasses(h, obj, superList[i], depth + 1)
                 IN  IF r.err = StillRunning THEN r
                     ELSE supers(i + 1, r.heap, r.err)
        up == IF super \notin DOMAIN heap[template.ref]
              THEN [err |-> Nil, heap |-> heap]
              ELSE IF ~isList
              THEN [err |-> "Property _super must be a list of super classes",
                    heap |-> heap]
              ELSE supers(1, heap, Nil)
    IN  IF depth > MaxIter THEN [err |-> StillRunning, heap |-> heap]
        ELSE IF up.err = StillRunning THEN up
        ELSE [err |-> up.err,
              heap |-> [up.heap EXCEPT ![obj.ref] =
                  [k \in DOMAIN @ \cup DOMAIN up.heap[template.ref] |->
                      IF k \in DOMAIN up.heap[template.ref]
                      THEN up.heap[template.ref][k] ELSE @[k]]]]

\* newFunc.Run lines 192-218: obj is a new map, filled by addSuperClasses
\* from the template args[0]; when obj then has a function under "init",
\* err becomes what the run of that function returns (lines 204-212). The
\* init functions of the programs have an empty body and return no error.
NewRun(heap, args) ==
    IF Len(args) = 0
    THEN [val |-> GoNil, err |-> "Need a map as first parameter",
          heap |-> heap]
    ELSE IF args[1].type # "map"
    THEN [val |-> GoNil, err |-> "Parameter 1 should be a map", heap |-> heap]
    ELSE LET obj == Ref("map", Len(heap) + 1, 0)
             r == addSuperClasses(Append(heap, EmptyMap), obj, args[1], 0)
             init == GoValue("string", 0, "init", <<>>)
         IN  IF /\ r.err # StillRunning
                /\ init \in DOMAIN r.heap[obj.ref]
                /\ r.heap[obj.ref][init].type = "function"
             THEN [val |-> obj, err |-> Nil, heap |-> r.heap]
             ELSE [val |-> obj, err |-> r.err, heap |-> r.heap]

\* A call of a function of the scope: range, del, new or testlog.
CallFunction(name, st, args) ==
    IF name = "range"
    THEN LET r == RangeRun(st.is, args) IN
         Ret(r.val, r.err, [st EXCEPT !.is = r.is])
    ELSE IF name = "new"
    THEN LET r == NewRun(st.heap, args) IN
         Ret(r.val, r.err, [st EXCEPT !.heap = r.heap])
    ELSE IF name = "del"
    THEN LET r == DelRun(st.heap, args) IN
         Ret(r.val, r.err, [st EXCEPT !.heap = r.heap])
    ELSE IF name = "add"
    THEN LET r == AddRun(st.heap, args) IN
         Ret(r.val, r.err, [st EXCEPT !.heap = r.heap])
    ELSE TestLog(st, args)

\* The comparison and arithmetic operators on numbers.
BinaryOp(name, l, r) ==
    CASE name = "==" -> GoBool(l = r)
      [] name = "<" -> GoBool(l.num < r.num)
      [] name = ">" -> GoBool(l.num > r.num)
      [] name = "plus" -> Float64(l.num + r.num)
      [] OTHER -> Float64(l.num - r.num)

\* The iterator loopRuntime.Eval builds for the value of the in expression
\* (lines 524-590): the function itself, the elements of a list, the keys
\* of a map sorted by their text (sortutil.InterfaceStrings), or the value
\* once. The keys are collected in the order of a Go map range and the
\* sort compares texts only, so keys of equal text (1 and "1") come out in
\* either order: numFirst decides. texts lists the texts of keys in
\* ascending order.
NewIterator(val, err, heap, numFirst) ==
    IF err = ErrIsIterator
    THEN [kind |-> "function", keys |-> <<>>, ref |-> 0, len |-> 0,
          index |-> 0]
    ELSE IF val.type = "list"
    THEN [kind |-> "list", keys |-> <<>>, ref |-> val.ref, len |-> val.num,
          index |-> 0]
    ELSE IF val.type = "map"
    THEN LET texts == <<"0", "1", "2", "3", "a", "b", "c", "super", "x", "y">>
             rank(k) == CHOOSE i \in 1 .. Len(texts) : texts[i] = Sprint(k)
             keys == DOMAIN heap[val.ref]
             Less(j, k) ==
                 \/ rank(j) < rank(k)
                 \/ /\ rank(j) = rank(k) /\ j # k
                    /\ j.type = (IF numFirst THEN "float64" ELSE "string")
         IN  [kind |-> "map",
              keys |-> [i \in 1 .. Cardinality(keys) |->
                          CHOOSE k \in keys :
                              Cardinality({j \in keys : Less(j, k)}) = i - 1],
              ref |-> val.ref, len |-> Cardinality(keys), index |-> 0]
    ELSE [kind |-> "single", keys |-> <<val>>, ref |-> 0, len |-> 1,
          index |-> 0]

RECURSIVE Eval(_, _)
RECURSIVE EvalStatements(_, _, _)
RECURSIVE EvalIf(_, _, _)
RECURSIVE EvalGuardLoop(_, _, _, _)
RECURSIVE EvalInLoop(_, _, _, _)
RECURSIVE EvalItems(_, _, _, _)
RECURSIVE Set(_, _, _)

\* The values of the children from i on, evaluated in order up to the
\* first error (listValueRuntime.Eval, mapValueRuntime.Eval, the arguments
\* of a call).
EvalItems(children, i, st, vals) ==
    IF i > Len(children) THEN [vals |-> vals, err |-> Nil, st |-> st]
    ELSE LET r == Eval(children[i], st) IN
         IF r.err # Nil THEN [vals |-> <<>>, err |-> r.err, st |-> r.st]
         ELSE EvalItems(children, i + 1, r.st, Append(vals, r.val))

\* identifierRuntime.Set for the identifiers nodes, one after the other,
\* with the values vals: a plain identifier is set in the scope
\* (vs.SetValue), an identifier with a member (a.b) sets the entry of the
\* map bound to it.
Set(nodes, vals, st) ==
    IF nodes = <<>> THEN st
    ELSE LET node == Head(nodes)
             vs == SetValue(st.vars, node.val, Head(vals))
             m == GetValue(st.vars, node.val).val
             key == GoValue("string", 0, node.children[1].val, <<>>)
         IN  Set(Tail(nodes), Tail(vals),
                 IF node.children = <<>>
                 THEN [st EXCEPT !.vars = vs,
                                 !.writes = Append(@, [name |-> node.val,
                                                       vs |-> vs])]
                 ELSE [st EXCEPT !.heap[m.ref] = Put(@, key, Head(vals))])

\* An assignment that evaluates its right side a second time for the
\* values it assigns.
EvalAssign_twice(node, st) ==
    LET leftSide == IF node.children[1].name = "identifier"
                    THEN <<node.children[1]>>
                    ELSE node.children[1].children
        r == Eval(node.children[2], Eval(node.children[2], st).st)
    IN  IF r.err # Nil THEN Ret(GoNil, r.err, r.st)
        ELSE IF Len(leftSide) = 1
        THEN Ret(GoNil, Nil, Set(leftSide, <<r.val>>, r.st))
        ELSE IF r.val.type = "list"
        THEN IF Len(leftSide) # r.val.num
             THEN Ret(GoNil, "ErrInvalidState", r.st)
             ELSE Ret(GoNil, Nil,
                      Set(leftSide,
                          SubSeq(r.st.heap[r.val.ref], 1, r.val.num), r.st))
        ELSE Ret(GoNil, "ErrInvalidState", r.st)

\* assignmentRuntime.Eval lines 78-122, with rt.leftSide as Validate
\* (lines 38-73) sets it: the identifier, or the identifiers of the list.
EvalAssign(node, st) ==
    LET leftSide == IF node.children[1].name = "identifier"
                    THEN <<node.children[1]>>
                    ELSE node.children[1].children
        r == Eval(node.children[2], st)
    IN  IF r.err # Nil THEN Ret(GoNil, r.err, r.st)
        ELSE IF Len(leftSide) = 1
        THEN Ret(GoNil, Nil, Set(leftSide, <<r.val>>, r.st))
        ELSE IF r.val.type = "list"
        THEN IF Len(leftSide) # r.val.num
             THEN Ret(GoNil, "ErrInvalidState", r.st)
             ELSE Ret(GoNil, Nil,
                      Set(leftSide,
                          SubSeq(r.st.heap[r.val.ref], 1, r.val.num), r.st))
        ELSE Ret(GoNil, "ErrInvalidState", r.st)

\* statementsRuntime.Eval: the children in order, up to the first error.
EvalStatements(children, i, st) ==
    IF i > Len(children) THEN Ret(GoNil, Nil, st)
    ELSE LET r == Eval(children[i], st) IN
         IF r.err # Nil THEN Ret(GoNil, r.err, r.st)
         ELSE EvalStatements(children, i + 1, r.st)

\* An if that goes on with the next guard after the statements of a guard
\* that holds.
EvalIf_everyGuard(node, offset, st) ==
    IF offset > Len(node.children) THEN Ret(GoNil, Nil, st)
    ELSE LET g == Eval(node.children[offset], st)
             b == Eval(node.children[offset + 1], g.st)
         IN  IF g.err # Nil THEN Ret(GoNil, g.err, g.st)
             ELSE IF g.val = GoBool(TRUE)
             THEN IF b.err # Nil THEN b ELSE EvalIf(node, offset + 2, b.st)
             ELSE EvalIf(node, offset + 2, g.st)

\* ifRuntime.Eval lines 350-365: the guards from offset on; the statements
\* of the first guard that holds are the result.
EvalIf(node, offset, st) ==
    IF offset > Len(node.children) THEN Ret(GoNil, Nil, st)
    ELSE LET g == Eval(node.children[offset], st) IN
         IF g.err # Nil THEN Ret(GoNil, g.err, g.st)
         ELSE IF g.val = GoBool(TRUE)
         THEN Eval(node.children[offset + 1], g.st)
         ELSE EvalIf(node, offset + 2, g.st)

\* The guarded loop without the check for continue.
EvalGuardLoop_noContinue(node, guardres, err, st) ==
    IF err = Nil /\ guardres = GoBool(TRUE)
    THEN IF st.fuel = 0 THEN Ret(GoNil, StillRunning, st)
         ELSE LET b == Eval(node.children[2], [st EXCEPT !.fuel = @ - 1])
                  g == Eval(node.children[1], b.st)
              IN  IF b.err = Nil
                  THEN EvalGuardLoop(node, g.val, g.err, g.st)
                  ELSE EvalGuardLoop(node, guardres, b.err, b.st)
    ELSE Ret(GoNil, err, st)

\* loopRuntime.Eval lines 487-516: for err == nil && guardres.(bool); the
\* block, the check for continue, the guard again. The error that ends the
\* loop is returned as it is.
EvalGuardLoop(node, guardres, err, st) ==
    IF err = Nil /\ guardres = GoBool(TRUE)
    THEN IF st.fuel = 0 THEN Ret(GoNil, StillRunning, st)
         ELSE LET b == Eval(node.children[2], [st EXCEPT !.fuel = @ - 1])
                  berr == IF b.err = ErrContinueIteration THEN Nil ELSE b.err
                  g == Eval(node.children[1], b.st)
              IN  IF berr = Nil
                  THEN EvalGuardLoop(node, g.val, g.err, g.st)
                  ELSE EvalGuardLoop(node, guardres, berr, b.st)
    ELSE Ret(GoNil, err, st)

\* loopRuntime.Eval lines 594-664: for err == nil; the next value of the
\* iterator, the loop variables (rt.leftInVarName of Validate), the block,
\* the check for continue; after the loop the end of iteration error is
\* dropped. A value that does not fit the loop variables returns at once.
EvalInLoop(node, iter, err, st) ==
    IF err # Nil
    THEN Ret(GoNil, IF err = ErrEndOfIteration THEN Nil ELSE err, st)
    ELSE IF st.fuel = 0 THEN Ret(GoNil, StillRunning, st)
    ELSE LET inNode == node.children[1]
             names == IF inNode.children[1].name = "identifier"
                     THEN <<inNode.children[1]>>
                     ELSE inNode.children[1].children
             key == iter.keys[iter.index + 1]
             next == IF iter.kind = "function"
                     THEN Eval(inNode.children[2], st)
                     ELSE IF iter.index >= iter.len
                     THEN Ret(GoNil, ErrEndOfIteration, st)
                     ELSE IF iter.kind = "list"
                     THEN Ret(st.heap[iter.ref][iter.index + 1], Nil, st)
                     ELSE IF iter.kind = "map"
                     THEN Ret(Ref("list", Len(st.heap) + 1, 2), Nil,
                              [st EXCEPT !.heap = Append(@,
                                  <<key,
                                    IF key \in DOMAIN st.heap[iter.ref]
                                    THEN st.heap[iter.ref][key]
                                    ELSE GoNil>>)])
                     ELSE Ret(key, Nil, st)
             nerr == IF next.err = ErrIsIterator THEN Nil ELSE next.err
             res == next.val
             fits == \/ Len(names) = 1
                     \/ res.type = "list" /\ Len(names) = res.num
             bound == Set(names,
                          IF Len(names) = 1 THEN <<res>>
                          ELSE SubSeq(next.st.heap[res.ref], 1, res.num),
                          [next.st EXCEPT !.fuel = @ - 1])
             b == Eval(node.children[2], bound)
             berr == IF b.err = ErrContinueIteration THEN Nil ELSE b.err
         IN  IF nerr # Nil
             THEN EvalInLoop(node, iter,
                      IF nerr = ErrContinueIteration THEN Nil ELSE nerr,
                      next.st)
             ELSE IF ~fits THEN Ret(GoNil, "ErrInvalidState", next.st)
             ELSE EvalInLoop(node, [iter EXCEPT !.index = @ + 1], berr, b.st)

\* Runtime.Eval of a node, by the name of the node. A list or map value
\* is a new array or map of the heap; if and loop evaluate in a child
\* scope (vs.NewChild, lines 348 and 481) that is gone afterwards.
Eval(node, st) ==
    CASE node.name = "number" -> Ret(Float64(node.num), Nil, st)
      [] node.name = "string" ->
            Ret(GoValue("string", 0, node.val, <<>>), Nil, st)
      [] node.name = "true" -> Ret(GoBool(TRUE), Nil, st)
      [] node.name = "false" -> Ret(GoBool(FALSE), Nil, st)
      [] node.name = "null" -> Ret(GoNil, Nil, st)
      [] node.name = "function" ->
            Ret(GoValue("function", 0, node.val, <<>>), Nil, st)
      [] node.name = "list" ->
            LET r == EvalItems(node.children, 1, st, <<>>) IN
            IF r.err # Nil THEN Ret(GoNil, r.err, r.st)
            ELSE Ret(Ref("list", Len(r.st.heap) + 1, Len(r.vals)), Nil,
                     [r.st EXCEPT !.heap =
                         Append(@, [j \in 1 .. GrowCap(Len(r.vals)) |->
                                       IF j <= Len(r.vals) THEN r.vals[j]
                                       ELSE GoNil])])
      [] node.name = "map" ->
            LET n == Len(node.children)
                r == EvalItems([i \in 1 .. 2 * n |->
                                   node.children[(i + 1) \div 2]
                                       .children[2 - (i % 2)]], 1, st, <<>>)
                m == [k \in {r.vals[2 * i - 1] : i \in 1 .. n} |->
                         r.vals[2 * (CHOOSE i \in 1 .. n :
                                        /\ r.vals[2 * i - 1] = k
                                        /\ \A j \in 1 .. n :
                                              r.vals[2 * j - 1] = k => j <= i)]]
            IN  IF r.err # Nil THEN Ret(GoNil, r.err, r.st)
                ELSE Ret(Ref("map", Len(r.st.heap) + 1, 0), Nil,
                         [r.st EXCEPT !.heap = Append(@, m)])
      [] node.name = "identifier" ->
            IF node.children = <<>>
            THEN Ret(GetValue(st.vars, node.val).val, Nil, st)
            ELSE LET r == EvalItems(node.children[1].children, 1, st, <<>>)
                 IN  IF r.err # Nil THEN Ret(GoNil, r.err, r.st)
                     ELSE CallFunction(node.val, r.st, r.vals)
      [] node.name \in {"==", "<", ">", "plus", "minus"} ->
            Ret(BinaryOp(node.name, Eval(node.children[1], st).val,
                         Eval(node.children[2], st).val), Nil, st)
      [] node.name = ":=" -> EvalAssign(node, st)
      [] node.name = "statements" -> EvalStatements(node.children, 1, st)
      [] node.name = "guard" ->
            LET r == Eval(node.children[1], st) IN
            Ret(GoBool(GuardResult(r.val)), r.err, r.st)
      [] node.name = "if" ->
            LET r == EvalIf(node, 1, [st EXCEPT !.vars = Append(@, EmptyMap)])
            IN  Ret(r.val, r.err,
                    [r.st EXCEPT !.vars = SubSeq(@, 1, Len(st.vars))])
      [] node.name = "break" -> Ret(GoNil, ErrEndOfIteration, st)
      [] node.name = "continue" -> Ret(GoNil, ErrContinueIteration, st)
      [] node.name = "loop" ->
            LET inner == [st EXCEPT !.is = NoInstance,
                                    !.vars = Append(@, EmptyMap)]
                first == Eval(IF node.children[1].name = "guard"
                              THEN node.children[1]
                              ELSE node.children[1].children[2], inner)
                sorts == first.err = Nil /\ first.val.type = "map"
                r == IF node.children[1].name = "guard"
                     THEN EvalGuardLoop(node, first.val, first.err, first.st)
                     ELSE EvalInLoop(node,
                              NewIterator(first.val, first.err, first.st.heap,
                                          sorts /\ Head(first.st.ties)),
                              IF first.err = ErrIsIterator
                              THEN Nil ELSE first.err,
                              IF sorts
                              THEN [first.st EXCEPT !.ties = Tail(@)]
                              ELSE first.st)
            IN  Ret(GoNil, r.err,
                    [r.st EXCEPT !.is = st.is,
                                 !.vars = SubSeq(@, 1, Len(st.vars))])
      [] OTHER -> Ret(GoNil, "ErrUnknownConstruct", st)

\* The variables on the left side of the assignments of the programs.
VarNames == <<"a", "b", "c", "d", "e", "f">>

\* The keys of the maps of the programs: the strings a, b, c and 1, and
\* (written #n) the numbers 1 and 2.
MapKeys == {"a", "b", "c", "1", "#1", "#2"}

\* The programs of the model by their parameters.
Input(kind, form, nested, guards, else, v, n, k, a, b, s) ==
    [kind |-> kind, form |-> form, nested |-> nested, guards |-> guards,
     else |-> else, v |-> v, n |-> n, k |-> k, a |-> a, b |-> b, s |-> s]

NoProgram == Input("none", "", FALSE, <<>>, FALSE, "null", 0, 0, 0, 0, 0)

\* if programs: 1 .. MaxGuards guards, each true, false or failing, with
\* or without else. assign programs: a list of n variables on the left
\* and on the right a list of k elements or a value that is no list, the
\* first variable bound before or not. scope programs: an assignment in
\* the body of an if, a for-in loop or a guarded loop, alone or inside
\* another if, to a name bound in the root scope, in the scope between
\* (where there is one) or nowhere. del programs: del on a list of n
\* elements with the index k, valid or not, and on a map with a key of
\* MapKeys. new programs: new on a template t with the members x, y, both
\* or none, without super classes, with the chain t, mid, base, with the
\* two super classes mid and base, with itself as its super class, or over
\* a mid and a base that are super classes of each other. map programs: a map of 1 .. MaxGuards entries with keys
\* of MapKeys, looped over twice. guard programs: an expression as the guard of an if,
\* of an elif or of a guarded loop. break and continue programs: a loop
\* of n >= 2 iterations, in both forms, alone or nested, with the jump in
\* iteration k. range programs: the arguments of range.
Inputs ==
    LET GuardKinds == {"true", "false", "error"}
        GuardSeqs == UNION {[1 .. l -> GuardKinds] : l \in 1 .. MaxGuards}
        GuardedExprs == {"null", "false", "true", "0", "1", "''", "'a'",
                         "[]", "[1]", "{}", "{1:1}"}
        Nums == (0 - MaxNum) .. MaxNum
    IN  {Input("if", "", FALSE, g, e, "null", 0, 0, 0, 0, 0) :
            g \in GuardSeqs, e \in BOOLEAN}
        \cup {Input("guard", f, FALSE, <<>>, FALSE, v, 0, 0, 0, 0, 0) :
            f \in {"if", "elif", "for"}, v \in GuardedExprs}
        \cup {Input(j, f, nd, <<>>, FALSE, "null", nk[1], nk[2], 0, 0, 0) :
            j \in {"break", "continue"}, f \in {"in", "guard"},
            nd \in BOOLEAN,
            nk \in {x \in (2 .. MaxNum + 1) \X (1 .. MaxNum + 1) :
                       x[2] <= x[1]}}
        \cup {Input("range", "", FALSE, <<>>, FALSE, "null", 0, 0, a, b, s) :
            a \in Nums, b \in Nums, s \in Nums}
        \cup {Input("assign", "list", FALSE, <<>>, e, "null", n, k, 0, 0, 0) :
            e \in BOOLEAN, n \in 1 .. MaxGuards, k \in 0 .. MaxGuards + 1}
        \cup {Input("assign", f, FALSE, <<>>, e, "null", n, 0, 0, 0, 0) :
            f \in {"number", "string", "map", "null"},
            e \in BOOLEAN, n \in 1 .. MaxGuards}
        \cup {Input("scope", f, nd, <<>>, FALSE, v, 0, 0, 0, 0, 0) :
            f \in {"if", "in", "guard"}, nd \in BOOLEAN,
            v \in {"none", "root", "mid"}}
        \cup {Input("del", "list", FALSE, <<>>, FALSE, "null", n, k, 0, 0, 0) :
            n \in 1 .. MaxNum + 1, k \in 0 .. MaxNum + 1}
        \cup {Input("add", f, FALSE, <<>>, FALSE, "null", n, 0, 0, 0, 0) :
            f \in {"literal", "del"}, n \in 1 .. MaxNum + 1}
        \cup {Input("add", f, FALSE, <<>>, TRUE, "null", n, k, 0, 0, 0) :
            f \in {"literal", "del"}, n \in 1 .. MaxNum + 1,
            k \in 0 .. MaxNum + 2}
        \cup {Input("del", "map", FALSE, ks, FALSE, v, 0, 0, 0, 0, 0) :
            ks \in UNION {[1 .. l -> MapKeys] : l \in 1 .. MaxGuards - 1},
            v \in MapKeys}
        \cup {Input("new", f, FALSE, ms, FALSE, "null", 0, 0, 0, 0, 0) :
            f \in {"none", "chain", "pair", "self", "cycle"},
            ms \in [1 .. 3 -> {"", "x", "y", "xy"}]}
        \cup {Input("super", f, FALSE, <<>>, e, "null", 0, 0, 0, 0, 0) :
            f \in {"list", "self", "last", "first", "deep"}, e \in BOOLEAN}
        \cup {Input("map", "", FALSE, ks, FALSE, "null", 0, 0, 0, 0, 0) :
            ks \in UNION {[1 .. l -> MapKeys] : l \in 1 .. MaxGuards}}

\* The AST of a program (parser.ASTNode: Name, Token.Val as text or as
\* number, Children):
\*   if:     if g1 { testlog(1) } elif g2 { testlog(2) } ... else { testlog(0) }
\*           where a failing guard is range() without arguments
\*   guard:  if v { testlog(1) };  if false { testlog(0) } elif v { testlog(1) };
\*           x := v  for x { testlog(1)  x := null }
\*   break, continue:
\*           for a in range(1, n, 1) { B }  testlog(0)       or
\*           a := 0  for a < n { a := a + 1  B }  testlog(0)
\*           with B = testlog(a)  if a == k { jump }  testlog(a + 10),
\*           alone or as the body of  for o in [1, 2] { ... };
\*           testlog(99) ends the program
\*   range:  for i in range(a, b, s) { testlog(i) }
\*   assign: a := 0 (or not)  [a, b, ...] := [testlog(7), 2, 3, ...]
\*           or, on the right side, 5, 'a', {} or null
\*   scope:  a := 1 (or not)  B    or    a := 1 (or not)  if true { B }
\*           or    if true { a := 1  B }       with B one of
\*           if true { a := 5 },  for i in [1] { a := 5 },
\*           g := true  for g { a := 5  g := false }
\*   del:    l := [1, ..., n]  r := del(l, k)
\*           m := {k1: 1, k2: 2, ...}  r := del(m, key)
\*   add:    l := [1, ..., n]  (or  l := del([1, ..., n + 1], n))
\*           r := add(l, 7)  or  r := add(l, 7, k)
\*   new:    base := {y: 3}  mid := {x: 2, super: [base]}
\*           t := {x: 1, super: [mid]}  o := new(t)
\*           with other members; or super: [mid, base] in t; or none; or
\*           t.super := [t]; or base.super := [mid]
\*   super:  bad := {super: 5}  base := {y: 3}  and one of
\*           t := {super: [base]},  t := {super: 5},
\*           t := {super: [base, bad]},  t := {super: [bad, base]},
\*           mid := {super: [bad]}  t := {super: [mid]},
\*           with or without  init: func () {}  in t;  then  o := new(t)
\*   map:    x := {k1: 1, k2: 2, ...}
\*           for [a, b] in x { testlog(a)  testlog(b) }    twice
Program(p) ==
    LET Node(name, val, num, children) ==
            [name |-> name, val |-> val, num |-> num, children |-> children]
        Tree(name, children) == Node(name, "", 0, children)
        Number(n) == Node("number", "", n, <<>>)
        Text(t) == Node("string", t, 0, <<>>)
        Identifier(name) == Node("identifier", name, 0, <<>>)
        Call(name, args) ==
            Node("identifier", name, 0, <<Tree("funccall", args)>>)
        Log(expr) == Call("testlog", <<expr>>)
        Guard(expr) == Tree("guard", <<expr>>)
        InLoop(name, expr, body) ==
            Tree("loop", <<Tree("in", <<Identifier(name), expr>>), body>>)
        InLoop2(names, expr, body) ==
            Tree("loop",
                 <<Tree("in", <<Tree("list", [i \in 1 .. Len(names) |->
                                                Identifier(names[i])]),
                                expr>>),
                   body>>)
        GuardExpr(g) ==
            CASE g = "true" -> Tree("true", <<>>)
              [] g = "false" -> Tree("false", <<>>)
              [] OTHER -> Call("range", <<>>)
        RECURSIVE IfBranches(_)
        IfBranches(i) ==
            IF i > Len(p.guards) THEN <<>>
            ELSE <<Guard(GuardExpr(p.guards[i])),
                   Tree("statements", <<Log(Number(i))>>)>>
                 \o IfBranches(i + 1)
        else == IF p.else
                THEN <<Guard(Tree("true", <<>>)),
                       Tree("statements", <<Log(Number(0))>>)>>
                ELSE <<>>
        v == CASE p.v = "0" -> Number(0)
               [] p.v = "1" -> Number(1)
               [] p.v = "''" -> Text("")
               [] p.v = "'a'" -> Text("a")
               [] p.v = "[]" -> Tree("list", <<>>)
               [] p.v = "[1]" -> Tree("list", <<Number(1)>>)
               [] p.v = "{}" -> Tree("map", <<>>)
               [] p.v = "{1:1}" ->
                    Tree("map", <<Tree("kvp", <<Number(1), Number(1)>>)>>)
               [] OTHER -> Tree(p.v, <<>>)
        right == CASE p.form = "list" ->
                        Tree("list", [i \in 1 .. p.k |->
                                        IF i = 1 THEN Log(Number(7))
                                        ELSE Number(i)])
                   [] p.form = "number" -> Number(5)
                   [] p.form = "string" -> Text("a")
                   [] p.form = "map" -> Tree("map", <<>>)
                   [] OTHER -> Tree("null", <<>>)
        bind(where) == IF p.v = where
                       THEN <<Tree(":=", <<Identifier("a"), Number(1)>>)>>
                       ELSE <<>>
        write == Tree(":=", <<Identifier("a"), Number(5)>>)
        block == CASE p.form = "if" ->
                        <<Tree("if", <<Guard(Tree("true", <<>>)),
                                       Tree("statements", <<write>>)>>)>>
                   [] p.form = "in" ->
                        <<InLoop("i", Tree("list", <<Number(1)>>),
                                 Tree("statements", <<write>>))>>
                   [] OTHER ->
                        <<Tree(":=", <<Identifier("g"), Tree("true", <<>>)>>),
                          Tree("loop",
                               <<Guard(Identifier("g")),
                                 Tree("statements",
                                      <<write,
                                        Tree(":=", <<Identifier("g"),
                                                     Tree("false", <<>>)>>)>>)
                               >>)>>
        Key(k) == CASE k = "#1" -> Number(1)
                    [] k = "#2" -> Number(2)
                    [] OTHER -> Text(k)
        members(j) == CASE p.guards[j] = "x" -> <<"x">>
                        [] p.guards[j] = "y" -> <<"y">>
                        [] p.guards[j] = "xy" -> <<"x", "y">>
                        [] OTHER -> <<>>
        Template(j, super) ==
            Tree("map",
                 [i \in 1 .. Len(members(j)) |->
                     Tree("kvp", <<Text(members(j)[i]), Number(j)>>)]
                 \o (IF super = <<>> THEN <<>>
                     ELSE <<Tree("kvp",
                                 <<Text("super"),
                                   Tree("list", [i \in 1 .. Len(super) |->
                                                   Identifier(super[i])])>>)
                          >>))
        Define(name, j, super) ==
            Tree(":=", <<Identifier(name), Template(j, super)>>)
        SetSuper(name, super) ==
            Tree(":=", <<Node("identifier", name, 0, <<Identifier("super")>>),
                         Tree("list", <<Identifier(super)>>)>>)
        create == Tree(":=", <<Identifier("o"),
                               Call("new", <<Identifier("t")>>)>>)
        literal == Tree("map", [i \in 1 .. Len(p.guards) |->
                                   Tree("kvp", <<Key(p.guards[i]),
                                                 Number(i)>>)])
        pairs == InLoop2(<<"a", "b">>, Identifier("x"),
                         Tree("statements",
                              <<Log(Identifier("a")), Log(Identifier("b"))>>))
        hit == Tree("statements", <<Log(Number(1))>>)
        miss == Tree("statements", <<Log(Number(0))>>)
        body == <<Log(Identifier("a")),
                  Tree("if",
                       <<Guard(Tree("==", <<Identifier("a"), Number(p.k)>>)),
                         Tree("statements", <<Tree(p.kind, <<>>)>>)>>),
                  Log(Tree("plus", <<Identifier("a"), Number(10)>>))>>
        incr == Tree(":=", <<Identifier("a"),
                             Tree("plus", <<Identifier("a"), Number(1)>>)>>)
        loop == IF p.form = "in"
                THEN <<InLoop("a", Call("range",
                                        <<Number(1), Number(p.n), Number(1)>>),
                              Tree("statements", body)),
                       Log(Number(0))>>
                ELSE <<Tree(":=", <<Identifier("a"), Number(0)>>),
                       Tree("loop",
                            <<Guard(Tree("<", <<Identifier("a"),
                                                Number(p.n)>>)),
                              Tree("statements", <<incr>> \o body)>>),
                       Log(Number(0))>>
    IN  CASE p.kind = "if" ->
                Tree("statements", <<Tree("if", IfBranches(1) \o else)>>)
          [] p.kind = "guard" /\ p.form = "if" ->
                Tree("statements", <<Tree("if", <<Guard(v), hit>>)>>)
          [] p.kind = "guard" /\ p.form = "elif" ->
                Tree("statements",
                     <<Tree("if", <<Guard(Tree("false", <<>>)), miss,
                                    Guard(v), hit>>)>>)
          [] p.kind = "guard" /\ p.form = "for" ->
                Tree("statements",
                     <<Tree(":=", <<Identifier("x"), v>>),
                       Tree("loop",
                            <<Guard(Identifier("x")),
                              Tree("statements",
                                   <<Log(Number(1)),
                                     Tree(":=", <<Identifier("x"),
                                                  Tree("null", <<>>)>>)>>)>>)>>)
          [] p.kind = "assign" ->
                Tree("statements",
                     (IF p.else
                      THEN <<Tree(":=", <<Identifier("a"), Number(0)>>)>>
                      ELSE <<>>)
                     \o <<Tree(":=",
                               <<Tree("list", [i \in 1 .. p.n |->
                                                 Identifier(VarNames[i])]),
                                 right>>)>>)
          [] p.kind = "scope" ->
                Tree("statements",
                     bind("root")
                     \o (IF p.nested
                         THEN <<Tree("if", <<Guard(Tree("true", <<>>)),
                                             Tree("statements",
                                                  bind("mid") \o block)>>)>>
                         ELSE block))
          [] p.kind = "del" /\ p.form = "list" ->
                Tree("statements",
                     <<Tree(":=", <<Identifier("l"),
                                    Tree("list", [i \in 1 .. p.n |->
                                                    Number(i)])>>),
                       Tree(":=", <<Identifier("r"),
                                    Call("del", <<Identifier("l"),
                                                  Number(p.k)>>)>>)>>)
          [] p.kind = "add" ->
                Tree("statements",
                     <<Tree(":=",
                            <<Identifier("l"),
                              IF p.form = "literal"
                              THEN Tree("list", [i \in 1 .. p.n |-> Number(i)])
                              ELSE Call("del",
                                        <<Tree("list", [i \in 1 .. p.n + 1 |->
                                                          Number(i)]),
                                          Number(p.n)>>)>>),
                       Tree(":=", <<Identifier("r"),
                                    Call("add",
                                         <<Identifier("l"), Number(7)>>
                                         \o (IF p.else THEN <<Number(p.k)>>
                                             ELSE <<>>))>>)>>)
          [] p.kind = "del" ->
                Tree("statements",
                     <<Tree(":=", <<Identifier("m"), literal>>),
                       Tree(":=", <<Identifier("r"),
                                    Call("del", <<Identifier("m"),
                                                  Key(p.v)>>)>>)>>)
          [] p.kind = "new" ->
                Tree("statements",
                     CASE p.form = "none" -> <<Define("t", 1, <<>>), create>>
                       [] p.form = "chain" ->
                            <<Define("base", 3, <<>>),
                              Define("mid", 2, <<"base">>),
                              Define("t", 1, <<"mid">>), create>>
                       [] p.form = "pair" ->
                            <<Define("base", 3, <<>>), Define("mid", 2, <<>>),
                              Define("t", 1, <<"mid", "base">>), create>>
                       [] p.form = "self" ->
                            <<Define("t", 1, <<>>), SetSuper("t", "t"),
                              create>>
                       [] OTHER ->
                            <<Define("base", 3, <<>>),
                              Define("mid", 2, <<"base">>),
                              SetSuper("base", "mid"),
                              Define("t", 1, <<"mid">>), create>>)
          [] p.kind = "super" ->
                LET Super(val) == Tree("kvp", <<Text("super"), val>>)
                    Names(names) ==
                        Tree("list", [i \in 1 .. Len(names) |->
                                        Identifier(names[i])])
                    init == IF p.else
                            THEN <<Tree("kvp", <<Text("init"),
                                                 Node("function", "init", 0,
                                                      <<>>)>>)>>
                            ELSE <<>>
                    Let(name, entries) ==
                        Tree(":=", <<Identifier(name), Tree("map", entries)>>)
                    bad == Let("bad", <<Super(Number(5))>>)
                    base == Let("base", <<Tree("kvp", <<Text("y"),
                                                        Number(3)>>)>>)
                IN  Tree("statements",
                         CASE p.form = "list" ->
                                <<base,
                                  Let("t", <<Super(Names(<<"base">>))>> \o init),
                                  create>>
                           [] p.form = "self" ->
                                <<Let("t", <<Super(Number(5))>> \o init),
                                  create>>
                           [] p.form = "last" ->
                                <<bad, base,
                                  Let("t", <<Super(Names(<<"base", "bad">>))>>
                                           \o init),
                                  create>>
                           [] p.form = "first" ->
                                <<bad, base,
                                  Let("t", <<Super(Names(<<"bad", "base">>))>>
                                           \o init),
                                  create>>
                           [] OTHER ->
                                <<bad, base,
                                  Let("mid", <<Super(Names(<<"bad">>))>>),
                                  Let("t", <<Super(Names(<<"mid">>))>> \o init),
                                  create>>)
          [] p.kind = "map" ->
                Tree("statements",
                     <<Tree(":=", <<Identifier("x"), literal>>),
                       pairs, pairs>>)
          [] p.kind \in {"break", "continue"} /\ p.nested ->
                Tree("statements",
                     <<InLoop("o", Tree("list", <<Number(1), Number(2)>>),
                              Tree("statements", loop)),
                       Log(Number(99))>>)
          [] p.kind \in {"break", "continue"} /\ ~p.nested ->
                Tree("statements", loop \o <<Log(Number(99))>>)
          [] OTHER ->
                Tree("statements",
                     <<InLoop("i", Call("range", <<Number(p.a), Number(p.b),
                                                   Number(p.s)>>),
                              Tree("statements", <<Log(Identifier("i"))>>))>>)

\* Sorts of map keys a program runs at most.
MaxSorts == 2

NotRun ==
    [done |-> FALSE, err |-> Nil, log |-> <<>>, vars |-> <<EmptyMap>>,
     heap |-> <<>>, writes |-> <<>>]

\* The interpreter evaluates the program in a new scope; what it leaves
\* is the error, the log, the scope and the heap.
Run ==
    /\ ~eOut.done
    /\ \E ties \in [1 .. MaxSorts -> BOOLEAN] :
          LET r == Eval(Program(eIn), [NewState EXCEPT !.ties = ties]) IN
          eOut' = [done |-> TRUE, err |-> r.err, log |-> r.st.log,
                   vars |-> r.st.vars, heap |-> r.st.heap,
                   writes |-> r.st.writes]
    /\ UNCHANGED <<eIn, dbgVars, engVars, matchVars, inspVars, cliVars>>

(***************************************************************************)
(*        DEBUG CLIENT of the editor extension (ECALDebugClient)           *)
(***************************************************************************)

\* Commands the debug adapter issues in a session.
MaxCmds == 3

\* Rounds of the polling loop.
MaxPolls == 3

\* Times the debugged thread is stopped.
MaxStops == 2

\* No lock: every call that asked for the socket may use it.
MayRun_noLock(lock, c) == \E i \in 1 .. Len(lock) : lock[i] = c

\* socketLock.acquire("socket", fn): the functions run one at a time, in the
\* order of the calls of acquire.
MayRun(lock, c) == lock # <<>> /\ Head(lock) = c

\* sendCommand up to its first await. Not connected: the command goes to
\* the backlog and the call returns null. Connected: the call takes the
\* backlog, empties it, and sends its items and then its own command, one
\* sendCommandString after the other.
sendCommand(c, name, conn) ==
    LET cmd == [name |-> name, no |-> issued + 1, pre |-> ~conn] IN
    /\ issued' = issued + 1
    /\ IF ~conn
       THEN /\ backlog' = Append(backlog, cmd)
            /\ calls' = [calls EXCEPT ![c].n = @ + 1]
            /\ UNCHANGED socketLock
       ELSE /\ backlog' = <<>>
            /\ calls' = [calls EXCEPT ![c].pc = "acquire",
                                      ![c].todo = backlog \o <<cmd>>,
                                      ![c].text = <<>>,
                                      ![c].n = @ + 1]
            /\ socketLock' = Append(socketLock, c)

\* conect: the socket is connected, and the polling loop starts with its
\* first status command in the same turn of the event loop.
conect ==
    /\ ~connected
    /\ connected' = TRUE
    /\ sendCommand("poll", "status", TRUE)
    /\ UNCHANGED <<wire, inbox, threadInspection, server, emitted>>
    /\ UNCHANGED <<dbgVars, engVars, matchVars, inspVars, evalVars>>

\* The timer of pollEvents fires: the next status command.
pollEvents ==
    /\ connected
    /\ calls["poll"].pc = "sleep"
    /\ calls["poll"].n < MaxPolls
    /\ sendCommand("poll", "status", TRUE)
    /\ UNCHANGED <<connected, wire, inbox, threadInspection, server, emitted>>
    /\ UNCHANGED <<dbgVars, engVars, matchVars, inspVars, evalVars>>

\* The debug adapter sets a break point, connected or not.
setBreakpoint(c) ==
    /\ calls[c].pc = "idle"
    /\ calls["a"].n + calls["b"].n < MaxCmds
    /\ sendCommand(c, "break", connected)
    /\ UNCHANGED <<connected, wire, inbox, threadInspection, server, emitted>>
    /\ UNCHANGED <<dbgVars, engVars, matchVars, inspVars, evalVars>>

\* The user types a cont command in the debug console: the adapter hands
\* the line to sendCommandString, past the backlog.
evaluateRequest(c) ==
    /\ connected
    /\ calls[c].pc = "idle"
    /\ calls["a"].n + calls["b"].n < MaxCmds
    /\ issued' = issued + 1
    /\ calls' = [calls EXCEPT
                   ![c].pc = "acquire",
                   ![c].todo = <<[name |-> "cont", no |-> issued + 1,
                                  pre |-> FALSE]>>,
                   ![c].text = <<>>,
                   ![c].n = @ + 1]
    /\ socketLock' = Append(socketLock, c)
    /\ UNCHANGED <<connected, backlog, wire, inbox, threadInspection, server,
                   emitted>>
    /\ UNCHANGED <<dbgVars, engVars, matchVars, inspVars, evalVars>>

\* sendCommandString, inside the lock: the command line is written.
Write(c) ==
    /\ calls[c].pc = "acquire"
    /\ MayRun(socketLock, c)
    /\ wire' = Append(wire, Head(calls[c].todo))
    /\ calls' = [calls EXCEPT ![c].pc = "read"]
    /\ UNCHANGED <<connected, backlog, socketLock, inbox, threadInspection,
                   server, emitted, issued>>
    /\ UNCHANGED <<dbgVars, engVars, matchVars, inspVars, evalVars>>

\* sendCommandString, inside the lock: one more piece of text is read. With
\* the empty line the response is complete and the lock is released; then
\* the call goes on with the next item of the backlog it took (a new
\* acquire), or it returns; pollEvents goes on after status with describe
\* for a stopped thread that has no entry in threadInspection, and after
\* describe it stores the entry and emits pauseOnBreakpoint.
Read(c) ==
    /\ calls[c].pc = "read"
    /\ MayRun(socketLock, c)
    /\ inbox # <<>>
    /\ inbox' = Tail(inbox)
    /\ LET tok  == Head(inbox)
           cmd  == Head(calls[c].todo)
           rest == Tail(calls[c].todo)
           text == Append(calls[c].text, tok)
           free == SelectSeq(socketLock, LAMBDA x : x # c)
           got  == [calls[c] EXCEPT
                      !.text = <<>>,
                      !.todo = <<>>,
                      !.res = [cmd |-> cmd.no,
                               from |-> {text[i].of : i \in 1 .. Len(text)}]]
           seen == [got EXCEPT !.was = calls[c].stop, !.stop = tok.stop]
       IN
       IF ~tok.end
       THEN /\ calls' = [calls EXCEPT ![c].text = text]
            /\ UNCHANGED <<socketLock, threadInspection, emitted, issued>>
       ELSE IF rest # <<>>
       THEN /\ calls' = [calls EXCEPT ![c] = [got EXCEPT !.pc = "acquire",
                                                         !.todo = rest]]
            /\ socketLock' = Append(free, c)
            /\ UNCHANGED <<threadInspection, emitted, issued>>
       ELSE IF c # "poll"
       THEN /\ calls' = [calls EXCEPT ![c] = [got EXCEPT !.pc = "idle"]]
            /\ socketLock' = free
            /\ UNCHANGED <<threadInspection, emitted, issued>>
       ELSE IF cmd.name = "status"
       THEN IF tok.stop # 0 /\ ~(server.tid \in threadInspection)
            THEN /\ calls' = [calls EXCEPT ![c] =
                                [seen EXCEPT
                                   !.pc = "acquire",
                                   !.todo = <<[name |-> "describe",
                                               no |-> issued + 1,
                                               pre |-> FALSE]>>]]
                 /\ socketLock' = Append(free, c)
                 /\ issued' = issued + 1
                 /\ UNCHANGED <<threadInspection, emitted>>
            ELSE /\ calls' = [calls EXCEPT ![c] = [seen EXCEPT !.pc = "sleep"]]
                 /\ socketLock' = free
                 /\ UNCHANGED <<threadInspection, emitted, issued>>
       ELSE /\ threadInspection' = threadInspection \cup {server.tid}
            /\ emitted' = emitted \cup {calls[c].stop}
            /\ calls' = [calls EXCEPT ![c] = [got EXCEPT !.pc = "sleep"]]
            /\ socketLock' = free
            /\ UNCHANGED issued
    /\ UNCHANGED <<connected, backlog, wire, server>>
    /\ UNCHANGED <<dbgVars, engVars, matchVars, inspVars, evalVars>>

\* The debug server handles the next line of the connection and writes its
\* response, the JSON text and the empty line that ends it. status reports
\* the thread as stopped or running; cont lets a stopped thread run.
Reply ==
    /\ server.served < Len(wire)
    /\ LET cmd  == wire[server.served + 1]
           stop == IF cmd.name = "status" /\ ~server.running
                   THEN server.stop ELSE 0
       IN /\ inbox' = inbox \o <<[of |-> cmd.no, end |-> FALSE, stop |-> stop],
                                 [of |-> cmd.no, end |-> TRUE, stop |-> stop]>>
          /\ server' = [server EXCEPT
                          !.served = @ + 1,
                          !.running = IF cmd.name = "cont" THEN TRUE ELSE @]
    /\ UNCHANGED <<connected, backlog, socketLock, calls, wire,
                   threadInspection, emitted, issued>>
    /\ UNCHANGED <<dbgVars, engVars, matchVars, inspVars, evalVars>>

\* The debugged thread reaches a break point: its interrogation state is
\* registered with running = FALSE.
ThreadStops ==
    /\ server.running
    /\ server.stop < MaxStops
    /\ server' = [server EXCEPT !.running = FALSE, !.stop = @ + 1]
    /\ UNCHANGED <<connected, backlog, socketLock, calls, wire, inbox,
                   threadInspection, emitted, issued>>
    /\ UNCHANGED <<dbgVars, engVars, matchVars, inspVars, evalVars>>

NextClient ==
    \/ conect
    \/ pollEvents
    \/ \E c \in Callers \ {"poll"} : setBreakpoint(c)
    \/ \E c \in Callers \ {"poll"} : evaluateRequest(c)
    \/ \E c \in Callers : Write(c)
    \/ \E c \in Callers : Read(c)
    \/ Reply
    \/ ThreadStops

(***************************************************************************)
(*                           Specifications                                *)
(***************************************************************************)

\* A new debugger (NewECALDebugger); no sink is declared and no event
\* submitted.
InitDebug ==
    /\ breakPoints = EmptyMap
    /\ interrogationStates = EmptyMap
    /\ callStacks = EmptyMap
    /\ sources = {}
    /\ breakOnStart = FALSE
    /\ thr = [t \in Threads |-> Idle]
    /\ step = [t \in Threads |-> NoStep]
    /\ steps = 0
    /\ panicked = FALSE
    /\ rulePrio = [r \in RuleNames |-> 1]
    /\ procStopped = TRUE
    /\ events = <<>>
    /\ monitors = <<>>
    /\ workers = <<>>
    /\ main = NoCall
    /\ mArgs = <<>>
    /\ mOut = NotCalled
    /\ globalScope = NoGlobalScope
    /\ threadScope = [t \in Threads |-> <<EmptyMap>>]
    /\ lastErr = NoErr
    /\ eIn = NoProgram
    /\ eOut = NotRun
    /\ connected = FALSE
    /\ backlog = <<>>
    /\ socketLock = <<>>
    /\ calls = [c \in Callers |->
                  [pc |-> "idle", todo |-> <<>>, text |-> <<>>,
                   res |-> [cmd |-> 0, from |-> {}],
                   n |-> 0, stop |-> 0, was |-> 0]]
    /\ wire = <<>>
    /\ inbox = <<>>
    /\ threadInspection = {}
    /\ server = [tid |-> 1, running |-> TRUE, stop |-> 0, served |-> 0]
    /\ emitted = {}
    /\ issued = 0

\* The sinks of the program are registered with their priorities, the
\* processor is stopped and the top-level code has not made its call; no
\* debugger activity.
InitEngine ==
    /\ rulePrio \in [RuleNames -> 1 .. MaxPrio]
    /\ procStopped = TRUE
    /\ events = <<>>
    /\ monitors = <<>>
    /\ workers = <<>>
    /\ main = NoCall
    /\ breakPoints = EmptyMap
    /\ interrogationStates = EmptyMap
    /\ callStacks = EmptyMap
    /\ sources = {}
    /\ breakOnStart = FALSE
    /\ thr = [t \in Threads |-> Idle]
    /\ step = [t \in Threads |-> NoStep]
    /\ steps = 0
    /\ panicked = FALSE
    /\ mArgs = <<>>
    /\ mOut = NotCalled
    /\ globalScope = NoGlobalScope
    /\ threadScope = [t \in Threads |-> <<EmptyMap>>]
    /\ lastErr = NoErr
    /\ eIn = NoProgram
    /\ eOut = NotRun
    /\ connected = FALSE
    /\ backlog = <<>>
    /\ socketLock = <<>>
    /\ calls = [c \in Callers |->
                  [pc |-> "idle", todo |-> <<>>, text |-> <<>>,
                   res |-> [cmd |-> 0, from |-> {}],
                   n |-> 0, stop |-> 0, was |-> 0]]
    /\ wire = <<>>
    /\ inbox = <<>>
    /\ threadInspection = {}
    /\ server = [tid |-> 1, running |-> TRUE, stop |-> 0, served |-> 0]
    /\ emitted = {}
    /\ issued = 0

\* The arguments of the call; nothing else happens.
InitMatch ==
    /\ mArgs \in MatchArgs
    /\ mOut = NotCalled
    /\ breakPoints = EmptyMap
    /\ interrogationStates = EmptyMap
    /\ callStacks = EmptyMap
    /\ sources = {}
    /\ breakOnStart = FALSE
    /\ thr = [t \in Threads |-> Idle]
    /\ step = [t \in Threads |-> NoStep]
    /\ steps = 0
    /\ panicked = FALSE
    /\ rulePrio = [r \in RuleNames |-> 1]
    /\ procStopped = TRUE
    /\ events = <<>>
    /\ monitors = <<>>
    /\ workers = <<>>
    /\ main = NoCall
    /\ globalScope = NoGlobalScope
    /\ threadScope = [t \in Threads |-> <<EmptyMap>>]
    /\ lastErr = NoErr
    /\ eIn = NoProgram
    /\ eOut = NotRun
    /\ connected = FALSE
    /\ backlog = <<>>
    /\ socketLock = <<>>
    /\ calls = [c \in Callers |->
                  [pc |-> "idle", todo |-> <<>>, text |-> <<>>,
                   res |-> [cmd |-> 0, from |-> {}],
                   n |-> 0, stop |-> 0, was |-> 0]]
    /\ wire = <<>>
    /\ inbox = <<>>
    /\ threadInspection = {}
    /\ server = [tid |-> 1, running |-> TRUE, stop |-> 0, served |-> 0]
    /\ emitted = {}
    /\ issued = 0

\* A new debugger, with or without a global scope, and threads whose scopes
\* define the variable x.
InitInspect ==
    /\ globalScope \in {NoGlobalScope, [given |-> TRUE, data |-> <<EmptyMap>>]}
    /\ threadScope = [t \in Threads |-> SetValue(<<EmptyMap>>, "x", Num("1"))]
    /\ lastErr = NoErr
    /\ eIn = NoProgram
    /\ eOut = NotRun
    /\ breakPoints = EmptyMap
    /\ interrogationStates = EmptyMap
    /\ callStacks = EmptyMap
    /\ sources = {}
    /\ breakOnStart = FALSE
    /\ thr = [t \in Threads |-> Idle]
    /\ step = [t \in Threads |-> NoStep]
    /\ steps = 0
    /\ panicked = FALSE
    /\ rulePrio = [r \in RuleNames |-> 1]
    /\ procStopped = TRUE
    /\ events = <<>>
    /\ monitors = <<>>
    /\ workers = <<>>
    /\ main = NoCall
    /\ mArgs = <<>>
    /\ mOut = NotCalled
    /\ connected = FALSE
    /\ backlog = <<>>
    /\ socketLock = <<>>
    /\ calls = [c \in Callers |->
                  [pc |-> "idle", todo |-> <<>>, text |-> <<>>,
                   res |-> [cmd |-> 0, from |-> {}],
                   n |-> 0, stop |-> 0, was |-> 0]]
    /\ wire = <<>>
    /\ inbox = <<>>
    /\ threadInspection = {}
    /\ server = [tid |-> 1, running |-> TRUE, stop |-> 0, served |-> 0]
    /\ emitted = {}
    /\ issued = 0

\* A program is handed to the interpreter; nothing else happens.
InitEval ==
    /\ eIn \in Inputs
    /\ eOut = NotRun
    /\ globalScope = NoGlobalScope
    /\ threadScope = [t \in Threads |-> <<EmptyMap>>]
    /\ lastErr = NoErr
    /\ breakPoints = EmptyMap
    /\ interrogationStates = EmptyMap
    /\ callStacks = EmptyMap
    /\ sources = {}
    /\ breakOnStart = FALSE
    /\ thr = [t \in Threads |-> Idle]
    /\ step = [t \in Threads |-> NoStep]
    /\ steps = 0
    /\ panicked = FALSE
    /\ rulePrio = [r \in RuleNames |-> 1]
    /\ procStopped = TRUE
    /\ events = <<>>
    /\ monitors = <<>>
    /\ workers = <<>>
    /\ main = NoCall
    /\ mArgs = <<>>
    /\ mOut = NotCalled
    /\ connected = FALSE
    /\ backlog = <<>>
    /\ socketLock = <<>>
    /\ calls = [c \in Callers |->
                  [pc |-> "idle", todo |-> <<>>, text |-> <<>>,
                   res |-> [cmd |-> 0, from |-> {}],
                   n |-> 0, stop |-> 0, was |-> 0]]
    /\ wire = <<>>
    /\ inbox = <<>>
    /\ threadInspection = {}
    /\ server = [tid |-> 1, running |-> TRUE, stop |-> 0, served |-> 0]
    /\ emitted = {}
    /\ issued = 0

\* A new debug client, not connected, and a server whose thread runs; no
\* interpreter activity.
InitClient ==
    /\ connected = FALSE
    /\ backlog = <<>>
    /\ socketLock = <<>>
    /\ calls = [c \in Callers |->
                  [pc |-> "idle", todo |-> <<>>, text |-> <<>>,
                   res |-> [cmd |-> 0, from |-> {}],
                   n |-> 0, stop |-> 0, was |-> 0]]
    /\ wire = <<>>
    /\ inbox = <<>>
    /\ threadInspection = {}
    /\ server = [tid |-> 1, running |-> TRUE, stop |-> 0, served |-> 0]
    /\ emitted = {}
    /\ issued = 0
    /\ breakPoints = EmptyMap
    /\ interrogationStates = EmptyMap
    /\ callStacks = EmptyMap
    /\ sources = {}
    /\ breakOnStart = FALSE
    /\ thr = [t \in Threads |-> Idle]
    /\ step = [t \in Threads |-> NoStep]
    /\ steps = 0
    /\ panicked = FALSE
    /\ rulePrio = [r \in RuleNames |-> 1]
    /\ procStopped = TRUE
    /\ events = <<>>
    /\ monitors = <<>>
    /\ workers = <<>>
    /\ main = NoCall
    /\ mArgs = <<>>
    /\ mOut = NotCalled
    /\ globalScope = NoGlobalScope
    /\ threadScope = [t \in Threads |-> <<EmptyMap>>]
    /\ lastErr = NoErr
    /\ eIn = NoProgram
    /\ eOut = NotRun

SpecDebug == InitDebug /\ [][NextDebug]_vars

SpecInspect == InitInspect /\ [][NextInspect]_vars

SpecEval == InitEval /\ [][Run]_vars

SpecEngine == InitEngine /\ [][NextEngine]_vars

SpecMatch == InitMatch /\ [][MatchSubmit]_vars

SpecClient == InitClient /\ [][NextClient]_vars

(***************************************************************************)
(*                      Properties of the debugger                         *)
(***************************************************************************)

Depth(t) == Len(Stack(t))

\* C7: a thread without interrogation state that visits a node on a line with
\* an active break point does not evaluate the node: it registers a state
\* with running = FALSE for that node, and it leaves the blocked positions
\* only in a step of Continue for its own thread id.
C7_BreakPointSuspends ==
    [][\A t \in Threads :
        /\ \A n \in Lines :
             (VisitState(t, n) /\ ~HasState(t)
                 /\ n \in DOMAIN breakPoints /\ breakPoints[n])
             => (thr'[t].pc = "reg" /\ thr'[t].node = n)
        /\ Register(t)
             => /\ interrogationStates'[t].running = FALSE
                /\ interrogationStates'[t].node = thr[t].node
                /\ thr'[t].pc \in Blocked
        /\ (thr[t].pc \in Blocked /\ thr'[t].pc \notin Blocked)
             => \E c \in ContTypes : Continue(t, c)
      ]_dbgVars

\* C7 witness: a thread waits at a line with an active break point, its
\* state registered as not running.
C7_Witness ==
    \E t \in Threads :
        /\ thr[t].pc = "wait"
        /\ thr[t].site = "breakpoint"
        /\ ~breakOnStart
        /\ Suspended(t)
        /\ interrogationStates[t].node \in DOMAIN breakPoints
        /\ breakPoints[interrogationStates[t].node]

\* C8: no thread is parked in cond.Wait while its state reports running =
\* TRUE; Continue wakes only threads it finds with running = FALSE, so such
\* a thread stays blocked for ever.
C8_NoLostWakeup ==
    \A t \in Threads : thr[t].pc = "wait" => Suspended(t)

\* C9: after Continue(tid, StepOver) the thread is not suspended inside the
\* statement it was stopped at nor inside a function that statement calls,
\* and it is suspended at the first node of another statement (another line
\* of the same call depth, or a node of a frame below).
C9_StepOverLaw ==
    [][\A t \in Threads :
        (step[t].kind = StepOver /\ ~step[t].over) =>
            /\ \A n \in Lines :
                 VisitState(t, n) =>
                    IF \/ Depth(t) > step[t].depth
                       \/ (Depth(t) = step[t].depth /\ n = step[t].line)
                    THEN thr'[t].pc = "run"
                    ELSE thr'[t].pc = "park"
            /\ \A n \in Lines :
                 (VisitStepInState(t, n) /\ Depth(t) >= step[t].depth)
                    => thr'[t].pc = "run"
      ]_dbgVars

\* C10: after Continue(tid, StepIn) the next VisitStepInState turns the
\* command into Stop and pushes the call, and from then on the thread blocks
\* at the first node with a token it visits, so that no statement of the
\* callee is evaluated before the thread is suspended again.
C10_StepInStopsInCallee ==
    [][\A t \in Threads :
        (step[t].kind = StepIn /\ ~step[t].over) =>
            /\ \A n \in Lines :
                 (VisitStepInState(t, n) /\ ~step[t].called) =>
                    /\ interrogationStates'[t].cmd = Stop
                    /\ Depth(t)' = Depth(t) + 1
                    /\ step'[t].called
            /\ step[t].called =>
                 /\ HasState(t) /\ interrogationStates[t].cmd = Stop
                 /\ \A n \in Lines :
                      VisitState(t, n) =>
                         /\ thr'[t].pc = "park"
                         /\ interrogationStates'[t].node = n
                         /\ ~interrogationStates'[t].running
      ]_dbgVars

\* C10 witness: a thread resumed with StepIn is suspended again one call
\* deeper than where it was resumed.
C10_Witness ==
    \E t \in Threads :
        /\ step[t].kind = StepIn /\ step[t].called /\ step[t].over
        /\ thr[t].pc = "wait" /\ thr[t].hook = "VisitState"
        /\ Suspended(t)
        /\ Depth(t) = step[t].depth + 1

ActiveBreakPoint(n) == n \in DOMAIN breakPoints /\ breakPoints[n]

\* The thread was resumed with Resume and has left the line it was stopped
\* at: its interrogation state is gone and it was not suspended since.
ResumedAway(t) ==
    step[t].kind = Resume /\ step[t].over /\ ~HasState(t)

\* C12: after Continue(tid, Resume) the thread passes the nodes of the line
\* it was stopped at; the first node of another line removes its
\* interrogation state, and from that node on the thread is suspended
\* exactly at the nodes of a line with an active break point.
C12_ResumeOnlyBreakPoints ==
    [][\A t \in Threads : \A n \in Lines :
        VisitState(t, n) =>
            /\ (step[t].kind = Resume /\ ~step[t].over) =>
                  IF n = step[t].line
                  THEN thr'[t].pc = "run" /\ HasState(t)'
                  ELSE /\ ~HasState(t)'
                       /\ thr'[t].pc =
                              IF ActiveBreakPoint(n) THEN "reg" ELSE "run"
            /\ ResumedAway(t) =>
                  thr'[t].pc = IF ActiveBreakPoint(n) THEN "reg" ELSE "run"
      ]_dbgVars

\* C12 as the code has it: after Continue(tid, Resume) the thread passes the
\* nodes of the line it was stopped at; the first node of another line
\* removes its interrogation state, and from that node on the thread is
\* suspended exactly at the nodes that hit a break point: the line has an
\* active break point, or breakOnStart is set.
C12_ResumeUntilBreakHit ==
    [][\A t \in Threads : \A n \in Lines :
        VisitState(t, n) =>
            /\ (step[t].kind = Resume /\ ~step[t].over) =>
                  IF n = step[t].line
                  THEN thr'[t].pc = "run" /\ HasState(t)'
                  ELSE /\ ~HasState(t)'
                       /\ thr'[t].pc = IF BreakHit(n) THEN "reg" ELSE "run"
            /\ ResumedAway(t) =>
                  thr'[t].pc = IF BreakHit(n) THEN "reg" ELSE "run"
      ]_dbgVars

\* C12 witness: a thread resumed with Resume is suspended again at the break
\* point of another line, with a new interrogation state.
C12_Witness ==
    \E t \in Threads :
        /\ step[t].kind = Resume /\ step[t].over
        /\ thr[t].pc = "wait" /\ Suspended(t)
        /\ interrogationStates[t].node # step[t].line
        /\ interrogationStates[t].cmd = Stop
        /\ ActiveBreakPoint(interrogationStates[t].node)

\* C13: Continue(tid, kind) acts on thread tid only: every other thread
\* stays where it is (a waiting thread keeps waiting) and keeps its
\* interrogation state, command, running flag and step out target included;
\* a Continue for a thread that has no interrogation state or is running
\* changes nothing in the debugger.
C13_ContinueOneThread ==
    [][\A t \in Threads, c \in ContTypes :
        Continue(t, c) =>
            /\ \A u \in Threads \ {t} :
                 /\ thr'[u] = thr[u]
                 /\ HasState(u)' = HasState(u)
                 /\ HasState(u) =>
                       interrogationStates'[u] = interrogationStates[u]
            /\ ~Suspended(t) =>
                 UNCHANGED <<breakPoints, interrogationStates, callStacks,
                             sources, breakOnStart, thr, panicked>>
      ]_dbgVars

\* C13 witness: a thread has been woken by Continue while another thread
\* is still suspended and waits.
C13_Witness ==
    \E t \in Threads : \E u \in Threads \ {t} :
        /\ step[t].kind # "none" /\ ~step[t].over
        /\ thr[t].pc = "woken" /\ interrogationStates[t].running
        /\ thr[u].pc = "wait" /\ Suspended(u)

\* C14: ExtractValue and InjectValue for a thread that has no interrogation
\* state, or whose state says running, return an error and leave the global
\* scope and the scope of every thread as they are; a scope is read or
\* written only for a thread that is suspended.
C14_InspectOnlySuspended ==
    [][\A t \in Threads :
        (~HasState(t) \/ interrogationStates[t].running) =>
            /\ \A v \in ThreadVarNames, d \in {"g"} :
                 ExtractValue(t, v, d) =>
                    /\ lastErr' # NoErr
                    /\ UNCHANGED <<globalScope, threadScope>>
            /\ \A v \in ThreadVarNames, e \in Expressions :
                 InjectValue(t, v, e) =>
                    /\ lastErr' # NoErr
                    /\ UNCHANGED <<globalScope, threadScope>>
      ]_vars

\* C14 witness: a value was extracted and another injected while a thread
\* was suspended, and a call for that thread, resumed since, was refused.
C14_Witness ==
    \E t \in Threads :
        /\ HasState(t) /\ interrogationStates[t].running
        /\ lastErr = Err("Cannot find suspended thread", t)
        /\ globalScope.given /\ GetValue(globalScope.data, "g").ok
        /\ GetValue(threadScope[t], "x").val = Num("7")

\* C34: Continue(tid, StepOut) on a thread that is suspended with an empty
\* call stack, at a top-level statement, completes without a runtime
\* failure.
C34_StepOutAtTopLevel ==
    [][\A t \in Threads :
        (Continue(t, StepOut) /\ Suspended(t) /\ Len(Stack(t)) = 0)
        => ~panicked']_vars

\* C36: when breakOnStart is set and several threads visit their first
\* node at the same time, one thread only is suspended on account of it:
\* no two threads are on their way to register an interrogation state for
\* the flag.
C36_BreakOnStartStopsOneThread ==
    Cardinality({t \in Threads : /\ thr[t].pc = "reg"
                                 /\ thr[t].site = "breakOnStart"}) <= 1

\* C38: a thread that is stepping over a call and is inside the called
\* function, or is stepping out of the call it was stopped in and has not
\* left it, is suspended when it visits another line that has an active
\* break point.
C38_BreakPointWhileStepping ==
    [][\A t \in Threads, n \in Lines :
        (/\ VisitState(t, n)
         /\ ~step[t].over /\ HasState(t)
         /\ interrogationStates[t].cmd \in {StepOver, StepOut}
         /\ \/ step[t].kind = StepOver /\ Depth(t) > step[t].depth
            \/ step[t].kind = StepOut /\ Depth(t) >= step[t].depth
                                      /\ step[t].depth >= 1
         /\ n # step[t].line
         /\ ActiveBreakPoint(n))
        => thr'[t].pc \in {"reg", "park"}]_vars

(***************************************************************************)
(*                    Properties of the event engine                       *)
(***************************************************************************)

RECURSIVE GlobStr(_, _)
\* A glob against a dotted kind, character by character: "*" stands for
\* the characters of one segment (any run without a dot).
GlobStr(p, s) ==
    IF p = <<>> THEN s = <<>>
    ELSE IF Head(p) = "*"
         THEN \/ GlobStr(Tail(p), s)
              \/ s # <<>> /\ Head(s) # "." /\ GlobStr(p, Tail(s))
         ELSE s # <<>> /\ Head(s) = Head(p) /\ GlobStr(Tail(p), Tail(s))

\* The capability c is present with value true in the rule scope built from
\* the scope argument of the call (the texts strconv.ParseBool reads as true).
ActiveInCall(c) ==
    /\ Len(mArgs) > 3
    /\ c \in DOMAIN mArgs[4].map
    /\ mArgs[4].map[c].str \in {"1", "t", "T", "TRUE", "true", "True"}

\* C6: an event submitted by addEvent triggers a rule if and only if one of
\* the rule's kindmatch globs matches the dotted kind of the call, every
\* capability of its scopematch is present and true in the rule scope of the
\* call (an absent capability is a mismatch), and every key of its statematch
\* is in the state of the call with the required value, or any value when the
\* required one is null.
C6_MatchIff ==
    (mOut.called /\ mOut.err = Nil) =>
        \A r \in MatchRules :
            r \in mOut.triggered <=>
                /\ \E p \in r.kindmatch : GlobStr(p, mArgs[2].str)
                /\ \A c \in r.scopematch : ActiveInCall(c)
                /\ \A k \in DOMAIN r.statematch :
                      /\ k \in DOMAIN mArgs[3].map
                      /\ \/ r.statematch[k] = Null
                         \/ mArgs[3].map[k] = r.statematch[k]

\* A call with a dotted kind and a scope triggers a rule that has all three
\* criteria, and leaves out one whose capability is inactive in the scope.
C6_Witness ==
    /\ mOut.called
    /\ mOut.err = Nil
    /\ mArgs[2].str = <<"a", ".", "b">>
    /\ \E r \in mOut.triggered :
          /\ Cardinality(r.kindmatch) = 2
          /\ r.scopematch = {"w"}
          /\ DOMAIN r.statematch # {}
          /\ r.statematch["val"] # Null
    /\ \E r \in MatchRules \ mOut.triggered :
          /\ r.scopematch = {"r", "w"}
          /\ \E p \in r.kindmatch : GlobStr(p, mArgs[2].str)
          /\ r.statematch = EmptyMap
          /\ "r" \in DOMAIN mArgs[4].map

\* A body of rule r has been started for event e.
Started(e, r) ==
    \E w \in 1 .. Len(workers) : workers[w].event = e /\ workers[w].rule = r

\* r matches event e and no matching rule that runs suppresses it.
Eligible(e, r) ==
    /\ r \in Triggering(e)
    /\ ~IsSuppressed(r, Triggering(e))

\* C1: when the body of a rule r2 is started for an event, the body of every
\* rule r1 of lower priority value that matches the event and is not
\* suppressed has been started for that event before.
C1_PriorityOrder ==
    [][\A e \in 1 .. Len(events) :
          StartRule(e) =>
              \A r1 \in RuleNames :
                  (/\ Eligible(e, r1)
                   /\ Eligible(e, Head(events[e].todo))
                   /\ Priority(r1) < Priority(Head(events[e].todo)))
                  => Started(e, r1)
      ]_vars

\* Two bodies of one event run at the same time; the one started first has
\* the lower priority value and the later name.
C1_Witness ==
    \E i, j \in 1 .. Len(workers) :
        /\ i < j
        /\ workers[i].event = workers[j].event
        /\ Priority(workers[i].rule) < Priority(workers[j].rule)
        /\ NameRank[workers[i].rule] > NameRank[workers[j].rule]
        /\ ~workers[i].done
        /\ ~workers[j].done

\* C2: when rules a and b both match an event, a has the strictly lower
\* priority value and lists b in its suppresses set, then the bodies of a and
\* b never both run for the event, and when a is not itself suppressed the
\* body of b is never started for it.
C2_SuppressedNeverRuns ==
    \A e \in 1 .. Len(events) :
        \A a, b \in Triggering(e) :
            (Priority(a) < Priority(b) /\ b \in RuleTable[a].suppresses)
            => /\ ~(Started(e, a) /\ Started(e, b))
               /\ Eligible(e, a) => ~Started(e, b)

\* The page event is done: A ran and suppressed B, and C ran although B
\* lists it, because B was suppressed itself.
C2_Witness ==
    \E e \in 1 .. Len(events) :
        /\ events[e].phase = "done"
        /\ {"A", "B", "C"} \subseteq Triggering(e)
        /\ Priority("A") < Priority("B")
        /\ Priority("B") < Priority("C")
        /\ Started(e, "A")
        /\ ~Started(e, "B")
        /\ Started(e, "C")

RECURSIVE InCascade(_)
\* Event e belongs to the cascade of the top-level call: it is the event of
\* the call, or a rule body of the cascade published it under a child monitor.
InCascade(e) ==
    \/ e = main.event
    \/ /\ events[e].by # 0
       /\ monitors[events[e].monitor].parent # 0
       /\ InCascade(workers[events[e].by].event)

\* The top-level call was addEventAndWait and it has returned a result.
Returned ==
    main.fn = "addEventAndWait" /\ main.pc = "run" /\ main.event # 0

\* C4: addEventAndWait returns only when every event of its cascade is done
\* and the body of every rule that runs for such an event has finished;
\* addEvent returns with the event queued, from top-level code and from a
\* rule body alike.
C4_WaitsForCascade ==
    [][/\ MainReturn =>
              \A e \in 1 .. Len(events) :
                  InCascade(e) =>
                      /\ events[e].phase = "done"
                      /\ \A r \in RuleNames :
                             Eligible(e, r) =>
                                 \E w \in 1 .. Len(workers) :
                                     /\ workers[w].event = e
                                     /\ workers[w].rule = r
                                     /\ workers[w].done
       /\ \A a \in MainArgs :
              (MainCall("addEvent", a) /\ main'.event # 0) =>
                  /\ main'.pc = "run"
                  /\ events'[main'.event].phase = "queued"
       /\ \A w \in 1 .. Len(workers) :
              BodyAddEvent(w) =>
                  /\ ~workers'[w].done
                  /\ Len(events') = Len(events) + 1
                  /\ events'[Len(events')].phase = "queued"
      ]_vars

\* addEventAndWait has returned after the log event of its cascade was
\* handled, while the audit event that C published with a scope of its own
\* is still in the processor.
C4_Witness ==
    /\ Returned
    /\ \E e \in 1 .. Len(events) :
          e # main.event /\ InCascade(e) /\ Started(e, "D")
    /\ \E x \in 1 .. Len(events) :
          ~InCascade(x) /\ events[x].phase # "done"

\* The rule bodies of the cascade of the top-level call that have failed.
FailedInCascade ==
    {w \in 1 .. Len(workers) :
        workers[w].failed /\ InCascade(workers[w].event)}

\* The items of the result that list rule r under event e.
ItemsOf(e, r) ==
    {i \in 1 .. Len(main.res) :
        /\ main.res[i].event.name = events[e].name
        /\ main.res[i].event.kind = Join(events[e].kind)
        /\ r \in DOMAIN main.res[i].errors}

\* The error types the raise statements of a rule body give.
RaisedBy(r) ==
    {RuleTable[r].body[k].args[1].str :
        k \in {x \in 1 .. Len(RuleTable[r].body) :
                  RuleTable[r].body[x].op = "raise"}}

\* C3: the error of a call that submitted an event is nil, whatever the
\* rules it triggers do, and a rule body fails with its own error only, not
\* with one of the rules its addEvent triggered; every failure is recorded
\* in the root monitor of the rule's monitor under the event and the name of
\* the rule; the result of addEventAndWait lists every failed rule of the
\* cascade exactly once, under its event and its name with its error, lists
\* nothing else, and is empty when no rule of the cascade failed.
C3_ErrorsInResult ==
    /\ main.event # 0 => main.err = Nil
    /\ \A w \in 1 .. Len(workers) :
           workers[w].failed =>
               /\ workers[w].err.type \in RaisedBy(workers[w].rule)
               /\ \E i \in 1 .. Len(monitors[Root(workers[w].monitor)].errors) :
                      LET x == monitors[Root(workers[w].monitor)].errors[i]
                      IN  /\ x.event = workers[w].event
                          /\ workers[w].rule \in DOMAIN x.ErrorMap
                          /\ x.ErrorMap[workers[w].rule] = workers[w].err
    /\ Returned =>
           /\ \A w \in FailedInCascade :
                  /\ Cardinality(ItemsOf(workers[w].event, workers[w].rule)) = 1
                  /\ \A i \in ItemsOf(workers[w].event, workers[w].rule) :
                         main.res[i].errors[workers[w].rule].type
                             = workers[w].err.type
           /\ \A i \in 1 .. Len(main.res) :
                  \A k \in DOMAIN main.res[i].errors :
                      \E w \in FailedInCascade :
                          /\ workers[w].rule = k
                          /\ i \in ItemsOf(workers[w].event, k)
           /\ FailedInCascade = {} => main.res = <<>>

\* addEventAndWait has returned two items: the page event with the errors of
\* A and B, and the log event with the error of D; the failure of D for the
\* audit event of another cascade is not in the result.
C3_Witness ==
    /\ Returned
    /\ Len(main.res) = 2
    /\ \E i \in 1 .. Len(main.res) : DOMAIN main.res[i].errors = {"A", "B"}
    /\ \E i \in 1 .. Len(main.res) : DOMAIN main.res[i].errors = {"D"}
    /\ \E w \in 1 .. Len(workers) :
          workers[w].failed /\ ~InCascade(workers[w].event)

\* The call of statement call of rule body by has a scope argument.
ScopedCall(by, call) == Len(RuleTable[workers[by].rule].body[call].args) > 3

\* C5 as stated: every event a rule body publishes through addEvent is under
\* a child monitor of the monitor of that body, and only the events of
\* top-level code are under a root monitor.
C5_AlwaysChildMonitor ==
    \A e \in 1 .. Len(events) :
        /\ events[e].by # 0 =>
               monitors[events[e].monitor].parent = workers[events[e].by].monitor
        /\ monitors[events[e].monitor].parent = 0 => events[e].by = 0

\* C5 as amended: an event a rule body publishes through addEvent without a
\* scope argument is under a child monitor of the monitor of that body and
\* reports to the same root; an event is under a new root monitor exactly
\* when top-level code submitted it or the call has a scope argument, and the
\* root then carries the scope of the call.
C5_ChildUnlessScoped ==
    \A e \in 1 .. Len(events) :
        LET m == monitors[events[e].monitor]
        IN  IF events[e].by = 0 \/ ScopedCall(events[e].by, events[e].call)
            THEN /\ m.parent = 0
                 /\ m.root = events[e].monitor
                 /\ events[e].by # 0 => m.scope.given
            ELSE /\ m.parent = workers[events[e].by].monitor
                 /\ m.root = Root(workers[events[e].by].monitor)
                 /\ m.root # events[e].monitor

\* A has published its log event under a child monitor of its own monitor
\* and C its audit event under a new root monitor.
C5_Witness ==
    /\ \E e \in 1 .. Len(events) :
          /\ events[e].by # 0
          /\ workers[events[e].by].rule = "A"
          /\ monitors[events[e].monitor].parent = workers[events[e].by].monitor
    /\ \E e \in 1 .. Len(events) :
          /\ events[e].by # 0
          /\ workers[events[e].by].rule = "C"
          /\ monitors[events[e].monitor].parent = 0

\* C30: a call of addEvent or addEventAndWait made while the processor is
\* stopped starts the processor before it submits the event: the call with
\* valid arguments leaves the processor running, returns no error and has
\* queued its event, which the processor then handles.
C30_StoppedProcessorIsStarted ==
    [][\A fn \in Functions, args \in MainArgs :
        (MainCall(fn, args) /\ procStopped /\ PrepareEvent(args).err = Nil)
        => /\ ~procStopped'
           /\ main'.err = Nil
           /\ Len(events') = Len(events) + 1
           /\ main'.event = Len(events')
           /\ events'[main'.event].phase = "queued"]_vars

\* The processor was stopped when the program made its call; the event of
\* that call was accepted and every rule it triggers has been started.
C30_Witness ==
    /\ main.calls = 1 /\ main.err = Nil /\ main.event # 0
    /\ ~procStopped
    /\ events[main.event].by = 0
    /\ events[main.event].phase = "done"
    /\ \E w \in 1 .. Len(workers) : workers[w].event = main.event

\* A kind string with an empty segment: the empty string, a dot at either
\* end, or two dots in a row.
HasEmptySegment(kind) ==
    \/ kind = <<>>
    \/ Head(kind) = "."
    \/ kind[Len(kind)] = "."
    \/ \E i \in 1 .. Len(kind) - 1 : kind[i] = "." /\ kind[i + 1] = "."

\* C31: a call of addEvent whose kind string has an empty segment returns
\* an error and submits no event, so no rule is triggered by it.
C31_EmptySegmentRejected ==
    (mOut.called /\ Len(mArgs) > 1 /\ HasEmptySegment(Sprint(mArgs[2]))) =>
        /\ mOut.err # Nil
        /\ mOut.triggered = {}

(***************************************************************************)
(*                    Properties of the interpreter                        *)
(***************************************************************************)

\* The numbers the program has logged, in order.
NumLog == [i \in 1 .. Len(eOut.log) |-> eOut.log[i].num]

RECURSIVE IterationsLog(_, _, _)
\* What the iterations a .. last of the loop body log when the jump is taken
\* in iteration k: the statement after the jump is skipped there.
IterationsLog(a, last, k) ==
    IF a > last THEN <<>>
    ELSE (IF a = k THEN <<a>> ELSE <<a, a + 10>>)
         \o IterationsLog(a + 1, last, k)

\* The log of a program whose loop logs inner: the statement after the loop
\* logs 0, an enclosing loop repeats both, and the program ends with 99.
AroundLoop(inner) ==
    IF eIn.nested
    THEN inner \o <<0>> \o inner \o <<0>> \o <<99>>
    ELSE inner \o <<0>> \o <<99>>

\* C15: a break in the body of a loop, guarded or for-in, ends that loop
\* and nothing else: the loop statement returns no error, the statement
\* after the loop is executed and an enclosing loop goes on iterating.
C15_BreakEndsInnermostLoop ==
    (eOut.done /\ eIn.kind = "break") =>
        /\ eOut.err = Nil
        /\ NumLog = AroundLoop(IterationsLog(1, eIn.k, eIn.k))

\* C16: a continue skips the rest of the current iteration only: the loop
\* goes on with its next guard evaluation or its next element, all other
\* iterations run in full, and the loop returns no error.
C16_ContinueSkipsIteration ==
    (eOut.done /\ eIn.kind = "continue") =>
        /\ eOut.err = Nil
        /\ NumLog = AroundLoop(IterationsLog(1, eIn.n, eIn.k))

\* C16 witness: a guarded loop inside a for-in loop has taken continue in
\* its first iteration and has run its second iteration in full, twice.
C16_Witness ==
    /\ eOut.done /\ eIn.kind = "continue" /\ eIn.form = "guard"
    /\ eIn.nested /\ eIn.n = 2 /\ eIn.k = 1
    /\ NumLog = <<1, 2, 12, 0, 1, 2, 12, 0, 99>>

\* The first guard of the if program that is not false, 0 if there is none.
FirstHolding(guards) ==
    IF \A i \in 1 .. Len(guards) : guards[i] = "false" THEN 0
    ELSE CHOOSE i \in 1 .. Len(guards) :
            /\ guards[i] # "false"
            /\ \A j \in 1 .. (i - 1) : guards[j] = "false"

\* C17: the guards of an if statement are evaluated in source order up to
\* the first one that holds; its body is the only body executed, no later
\* guard is evaluated (a later guard that would fail does not), and
\* without a guard that holds only the else body, if there is one, runs.
C17_FirstTruthyGuardOnly ==
    (eOut.done /\ eIn.kind = "if") =>
        LET first == FirstHolding(eIn.guards) IN
        IF first = 0
        THEN eOut.err = Nil /\ NumLog = (IF eIn.else THEN <<0>> ELSE <<>>)
        ELSE IF eIn.guards[first] = "true"
        THEN eOut.err = Nil /\ NumLog = <<first>>
        ELSE eOut.err = "Need at least an end range as first parameter" /\ NumLog = <<>>

\* C17 witness: the second guard held; its body ran, and the failing third
\* guard and the else body did not.
C17_Witness ==
    /\ eOut.done /\ eIn.kind = "if"
    /\ eIn.guards = <<"false", "true", "error">> /\ eIn.else
    /\ eOut.err = Nil /\ NumLog = <<2>>

\* The guard expressions whose value the language counts as false: null,
\* false, the number 0, the empty string, the empty list, the empty map.
Falsy(v) == v \in {"null", "false", "0", "''", "[]", "{}"}

\* C18: a guard of if, elif or a guarded loop is false exactly for null,
\* false, the number 0, the empty string, the empty list and the empty
\* map: the guarded body runs if and only if the value is none of them.
C18_GuardTruthiness ==
    (eOut.done /\ eIn.kind = "guard") =>
        /\ eOut.err = Nil
        /\ NumLog = (IF Falsy(eIn.v) THEN <<>> ELSE <<1>>)

Abs(x) == IF x < 0 THEN 0 - x ELSE x

\* The step points from a towards b.
Towards(a, b, s) == (a < b /\ s > 0) \/ (a > b /\ s < 0)

\* C19: a for-in loop over range(a, b, s) with a step towards b binds the
\* loop variable to a, a+s, a+2s, ... in this order, up to the last such
\* value that does not pass b; b itself is bound when it is reached.
C19_RangeValues ==
    (eOut.done /\ eIn.kind = "range" /\ Towards(eIn.a, eIn.b, eIn.s)) =>
        /\ eOut.err = Nil
        /\ NumLog = [i \in 1 .. (Abs(eIn.b - eIn.a) \div Abs(eIn.s)) + 1 |->
                        eIn.a + (i - 1) * eIn.s]

\* C19 witness: a descending range that steps over its end, and an
\* ascending one that reaches it.
C19_Witness ==
    /\ eOut.done /\ eIn.kind = "range"
    /\ \/ eIn.a = 2 /\ eIn.b = 0 - 1 /\ eIn.s = 0 - 2 /\ NumLog = <<2, 0>>
       \/ eIn.a = 0 /\ eIn.b = 2 /\ eIn.s = 1 /\ NumLog = <<0, 1, 2>>

\* ceil(x / y) for y > 0.
CeilDiv(x, y) == 0 - ((0 - x) \div y)

Max(x, y) == IF x > y THEN x ELSE y

\* C20: for i in range(a, b, s) runs max(0, ceil((b-a)/s)) iterations for
\* a positive step and max(0, ceil((a-b)/(-s))) for a negative one: the
\* start is included and the end is not.
C20_RangeIterationCount ==
    (eOut.done /\ eIn.kind = "range" /\ eIn.s # 0) =>
        /\ eOut.err = Nil
        /\ Len(eOut.log) =
              IF eIn.s > 0
              THEN Max(0, CeilDiv(eIn.b - eIn.a, eIn.s))
              ELSE Max(0, CeilDiv(eIn.a - eIn.b, 0 - eIn.s))

\* C21: a for-in loop over range(a, b, s) with s = 0 or with a = b runs
\* no iteration and ends at once, without an error.
C21_ZeroStepOrEmptyRange ==
    (eOut.done /\ eIn.kind = "range" /\ (eIn.s = 0 \/ eIn.a = eIn.b)) =>
        /\ eOut.err = Nil
        /\ eOut.log = <<>>

\* The value a key of MapKeys stands for.
KeyValue(k) ==
    CASE k = "#1" -> Float64(1)
      [] k = "#2" -> Float64(2)
      [] OTHER -> GoValue("string", 0, k, <<>>)

\* The position of the text of a key among the texts of all keys in
\* ascending order.
TextRank(key) ==
    CHOOSE i \in 1 .. 5 : <<"1", "2", "a", "b", "c">>[i] = key.str

\* The number the map of the program holds under a key: the entries are
\* numbered in source order and a later entry replaces an earlier one.
Entry(key) ==
    CHOOSE i \in 1 .. Len(eIn.guards) :
        /\ KeyValue(eIn.guards[i]) = key
        /\ \A j \in 1 .. Len(eIn.guards) :
              KeyValue(eIn.guards[j]) = key => j <= i

\* C22: a for-in loop over a map visits every key exactly once, as
\* [key, value] pairs in ascending order of the text of the keys, and a
\* second loop over the same unchanged map gives the same sequence.
C22_MapLoopSortedAndRepeatable ==
    (eOut.done /\ eIn.kind = "map") =>
        LET keys == {KeyValue(eIn.guards[i]) : i \in 1 .. Len(eIn.guards)}
            n == Cardinality(keys)
            log == eOut.log
        IN  /\ eOut.err = Nil
            /\ Len(log) = 4 * n
            /\ {log[2 * i - 1] : i \in 1 .. n} = keys
            /\ \A i \in 1 .. n : log[2 * i] = Float64(Entry(log[2 * i - 1]))
            /\ \A i \in 1 .. n, j \in 1 .. n :
                  i < j => TextRank(log[2 * i - 1]) <= TextRank(log[2 * j - 1])
            /\ SubSeq(log, 2 * n + 1, 4 * n) = SubSeq(log, 1, 2 * n)

\* The value of a variable in the scope the program has left, nil for a
\* variable that is not bound.
Bound(name) ==
    IF GetValue(eOut.vars, name).ok THEN GetValue(eOut.vars, name).val
    ELSE GoNil

\* C23: [v1, ..., vn] := e with n >= 2 and e a list of exactly n elements
\* binds vi to the i-th element, and e is evaluated exactly once (its
\* first element logs 7 when it is evaluated).
C23_DestructuringBinds ==
    (eOut.done /\ eIn.kind = "assign" /\ eIn.form = "list"
        /\ eIn.n >= 2 /\ eIn.k = eIn.n) =>
        /\ eOut.err = Nil
        /\ NumLog = <<7>>
        /\ \A i \in 1 .. eIn.n :
              /\ GetValue(eOut.vars, VarNames[i]).ok
              /\ Bound(VarNames[i]) = (IF i = 1 THEN GoNil ELSE Float64(i))

\* C23 witness: three variables were bound to the three elements of a
\* list, the first one bound to 0 before.
C23_Witness ==
    /\ eOut.done /\ eIn.kind = "assign" /\ eIn.form = "list"
    /\ eIn.n = 3 /\ eIn.k = 3 /\ eIn.else
    /\ eOut.err = Nil /\ NumLog = <<7>>
    /\ Bound("a") = GoNil /\ Bound("b") = Float64(2) /\ Bound("c") = Float64(3)

\* C24: with a list of n >= 1 identifiers on the left and a right side
\* that is not a list of exactly n elements, the assignment fails with
\* InvalidState and no variable of the left side is bound or changed.
C24_MismatchBindsNothing ==
    (eOut.done /\ eIn.kind = "assign"
        /\ (eIn.form # "list" \/ eIn.k # eIn.n)) =>
        /\ eOut.err = "ErrInvalidState"
        /\ \A i \in 1 .. eIn.n :
              IF i = 1 /\ eIn.else
              THEN Bound(VarNames[i]) = Float64(0)
              ELSE ~GetValue(eOut.vars, VarNames[i]).ok

\* The scopes of a chain that hold a name.
Holders(vs, name) == {i \in 1 .. Len(vs) : name \in DOMAIN vs[i]}

\* C25: an assignment in a nested block to a name bound in an enclosing
\* scope updates that binding and binds nothing in the child scope; an
\* assignment to an unbound name binds it in the current child scope only;
\* after any write exactly one scope of the chain holds the name.
C25_OneScopeHoldsTheName ==
    (eOut.done /\ eIn.kind = "scope") =>
        /\ eOut.err = Nil
        /\ \A i \in 1 .. Len(eOut.writes) :
              LET w == eOut.writes[i]
                  bound == IF eIn.v = "mid" /\ ~eIn.nested THEN "none"
                           ELSE eIn.v
              IN  /\ Cardinality(Holders(w.vs, w.name)) = 1
                  /\ (w.name = "a" /\ GetValue(w.vs, "a").val = Float64(5)) =>
                        /\ Len(w.vs) = (IF eIn.nested THEN 3 ELSE 2)
                        /\ Holders(w.vs, "a") =
                              CASE bound = "root" -> {1}
                                [] bound = "mid" -> {2}
                                [] OTHER -> {Len(w.vs)}
        /\ \E i \in 1 .. Len(eOut.writes) :
              /\ eOut.writes[i].name = "a"
              /\ GetValue(eOut.writes[i].vs, "a").val = Float64(5)
        /\ Bound("a") = (IF eIn.v = "root" THEN Float64(5) ELSE GoNil)

\* C25 witness: the body of a loop inside an if has assigned to a name of
\* the root scope, and the root scope holds the new value afterwards.
C25_Witness ==
    /\ eOut.done /\ eIn.kind = "scope" /\ eIn.nested /\ eIn.form = "in"
    /\ eIn.v = "root"
    /\ \E i \in 1 .. Len(eOut.writes) :
          /\ eOut.writes[i].name = "a"
          /\ Len(eOut.writes[i].vs) = 3
          /\ eOut.writes[i].vs[1]["a"] = Float64(5)
          /\ Holders(eOut.writes[i].vs, "a") = {1}
    /\ Bound("a") = Float64(5)

\* The elements of the list a variable is bound to, as the program has
\* left them.
Contents(name) ==
    SubSeq(eOut.heap[Bound(name).ref], 1, Bound(name).num)

\* C26: del(l, k) on a list l with a valid index k returns l without the
\* element at index k, and as a new list: l holds what it held before.
C26_DelListReturnsNewList ==
    (eOut.done /\ eIn.kind = "del" /\ eIn.form = "list" /\ eIn.k < eIn.n) =>
        /\ eOut.err = Nil
        /\ Contents("r") = [i \in 1 .. eIn.n - 1 |->
                               Float64(IF i <= eIn.k THEN i ELSE i + 1)]
        /\ Contents("l") = [i \in 1 .. eIn.n |-> Float64(i)]

\* C27: del(m, key) on a map m removes the entry under the key, for a key
\* written as a string and for a key written as a number, and leaves
\* every other entry as it was.
C27_DelMapRemovesEntry ==
    (eOut.done /\ eIn.kind = "del" /\ eIn.form = "map") =>
        LET keys == {KeyValue(eIn.guards[i]) : i \in 1 .. Len(eIn.guards)}
            m == eOut.heap[Bound("m").ref]
        IN  /\ eOut.err = Nil
            /\ DOMAIN m = keys \ {KeyValue(eIn.v)}
            /\ \A k \in DOMAIN m : m[k] = Float64(Entry(k))

\* The members x, y a template of a new program is written with, and the
\* templates t reaches through super lists (1 is t, 2 is mid, 3 is base).
Members(j) ==
    {GoValue("string", 0, k, <<>>) :
        k \in CASE eIn.guards[j] = "x" -> {"x"}
               [] eIn.guards[j] = "y" -> {"y"}
               [] eIn.guards[j] = "xy" -> {"x", "y"}
               [] OTHER -> {}}

Reachable == IF eIn.form \in {"none", "self"} THEN {1} ELSE {1, 2, 3}

C29_NewTerminatesOnCycle ==
    (eOut.done /\ eIn.kind = "new") => eOut.err # StillRunning

\* C33: a for-in loop over range(a, b, s) terminates for all a, b and s,
\* and runs no iteration when the sign of the step points away from the
\* end (a < b with s < 0, or a > b with s > 0).
C33_RangeTerminates ==
    (eOut.done /\ eIn.kind = "range") =>
        /\ eOut.err # StillRunning
        /\ ((eIn.a < eIn.b /\ eIn.s < 0) \/ (eIn.a > eIn.b /\ eIn.s > 0)) =>
              (eOut.err = Nil /\ eOut.log = <<>>)

\* C39: add(l, v) returns l with v appended and add(l, v, i) returns l
\* with v inserted at index i and the later elements one place further,
\* and the list bound to l holds the same elements after the call.
C39_AddLeavesListUnchanged ==
    (eOut.done /\ eIn.kind = "add" /\ eIn.k <= eIn.n) =>
        LET at == IF eIn.else THEN eIn.k ELSE eIn.n IN
        /\ eOut.err = Nil
        /\ Contents("r") = [i \in 1 .. eIn.n + 1 |->
                               IF i <= at THEN Float64(i)
                               ELSE IF i = at + 1 THEN Float64(7)
                               ELSE Float64(i - 1)]
        /\ Contents("l") = [i \in 1 .. eIn.n |-> Float64(i)]

\* C40: new(t) returns an error whenever t or a template of its super
\* chain has a super property that is not a list, also when another super
\* template comes after it in a super list and when the object has an init
\* function that runs without error.
C40_BadSuperIsAnError ==
    (eOut.done /\ eIn.kind = "super" /\ eIn.form # "list") =>
        eOut.err # Nil

(***************************************************************************)
(*                    Properties of the debug client                       *)
(***************************************************************************)

\* C32: at most one call of sendCommandString is between the write of its
\* command and the end of its response; the text a call has read so far is
\* text of the response to the command it wrote, and the response a caller
\* was given is made of the text of the response to its own command only.
C32_OneCallOnTheSocket ==
    /\ Cardinality({c \in Callers : calls[c].pc = "read"}) <= 1
    /\ \A c \in Callers :
         /\ \A i \in 1 .. Len(calls[c].text) :
              calls[c].text[i].of = Head(calls[c].todo).no
         /\ calls[c].res.from \subseteq {calls[c].res.cmd}

\* C32 witness: one caller has read a part of its response while another
\* call waits for the socket, and a third caller was given a response.
C32_Witness ==
    \E c, d, e \in Callers :
        /\ calls[c].pc = "read"
        /\ Len(calls[c].text) > 0
        /\ calls[d].pc = "acquire"
        /\ calls[e].res.cmd # 0
        /\ calls[e].res.from = {calls[e].res.cmd}

\* C35: when a round of the polling loop is over whose status response
\* reported the thread as stopped, the response before having reported it
\* as running, pauseOnBreakpoint was emitted for that stop.
C35_EveryStopIsEmitted ==
    (/\ calls["poll"].pc = "sleep"
     /\ calls["poll"].stop # 0
     /\ calls["poll"].was = 0)
    => calls["poll"].stop \in emitted

\* C37: the commands issued before the connection are written to the socket
\* in the order of their issue, and no command issued after the connection
\* is written before one of them.
C37_BacklogFirstInOrder ==
    \A i, j \in 1 .. Len(wire) :
        (i < j /\ wire[j].pre) => (wire[i].pre /\ wire[i].no < wire[j].no)
====
